---------------------------- MODULE Spec2Model ----------------------------
(***************************************************************************)
(* BioVault agent: the document queue, the poll loop and its tick, the     *)
(* four-stage pipeline, the safety flags and the SQLite store behind them. *)
(*                                                                         *)
(* Every function of database.py opens its own connection and commits on   *)
(* exit (get_conn), so every store call is one atomic step here; a tick is *)
(* a sequence of such steps, and the position of each thread is th[t].pc.  *)
(* A stage call (an HTTP call or a pure computation, no store access) is   *)
(* taken together with the store call that precedes it.                    *)
(***************************************************************************)
EXTENDS Integers, Sequences, FiniteSets, TLC

(* ------------------------------ bounds -------------------------------- *)
MaxDocs == 2        \* documents ever submitted
MaxDocsDeep == 1    \* the same, where one document is followed through crashes
MaxTime == 1        \* the clock runs over 0..MaxTime
MaxCrashes == 1     \* kills of the process
MaxProcessNow == 1  \* POST /agent/process-now requests
MaxStdFlags == 1    \* safety_flags entries in one standardization output
MaxFailedChecks == 1 \* failed checks in one validation report
MaxEscStdFlags == 2     \* flags in a standardization output, escalation runs
MaxSeverityFlags == 2   \* flags in a standardization output, severity runs
MaxEscFailedChecks == 2 \* failed checks in a report, escalation runs
MaxHealthClock == 95    \* seconds the clock runs where staleness is followed
LogWindow == 1      \* newest agent_log rows the model keeps track of

(* --------------------------- value spaces ----------------------------- *)
NULL == "null"
NoDoc == 0

\* The agent daemon thread (main.py:62) and the thread process_now spawns
\* (main.py:158); one process-now thread is alive at a time in the model.
Threads == {"loop", "pn"}

Stages == <<"extraction", "standardization", "fhir", "validation">>

\* run_validation's checks, in the order validator.py builds them.
CheckNames == <<"PII De-identification", "ICD-10 Code Validity",
                "Dose Consistency", "FHIR R4 Schema",
                "Drug Name Standardization">>

\* Entries the standardization model may put in "safety_flags".
StdFlags == { [severity |-> "HIGH", category |-> "DOSE_VARIANCE"],
              [severity |-> "LOW",  category |-> "MISSING_DATA"] }

RECURSIVE SeqsUpTo(_, _)
SeqsUpTo(S, n) ==
  IF n = 0 THEN { <<>> }
  ELSE LET shorter == SeqsUpTo(S, n - 1)
       IN  shorter \cup { Append(s, x) : s \in shorter, x \in S }

StdOutputs == SeqsUpTo(StdFlags, MaxStdFlags)

Range(s) == { s[i] : i \in 1..Len(s) }

ValidationOutcomes ==
  { F \in SUBSET Range(CheckNames) : Cardinality(F) <= MaxFailedChecks }

Min(a, b) == IF a < b THEN a ELSE b

VARIABLES
  documents,         \* table documents, in insertion (rowid) order
  pipeline_results,  \* table pipeline_results, in id order
  safety_flags,      \* table safety_flags, in id order
  agent_heartbeat,   \* the single row of agent_heartbeat
  agent_log,         \* the newest rows of agent_log, oldest first
  alerts,            \* payloads dispatch_alert has emitted, in order
  now,               \* the wall clock _now() reads
  th,                \* per thread: position and locals of run_agent_loop/_tick
  reply,             \* the last two answers to the HTTP requests modelled
  crashes,           \* kills so far
  pn_calls,          \* process-now requests so far
  stop_event,        \* agent._stop_event is set
  entered            \* history: per document, times it became 'processing'

vars == << documents, pipeline_results, safety_flags, agent_heartbeat,
           agent_log, alerts, now, th, reply, crashes, pn_calls,
           stop_event, entered >>

DocIds == 1..Len(documents)


(* ------------------------- database.py: the store --------------------- *)

\* insert_document: a new row, status 'pending'; the other columns take their
\* defaults.  uploaded_at is the value _now() returned in the caller.
insert_document(docs, uploaded) ==
  Append(docs, [ status |-> "pending", uploaded_at |-> uploaded,
                 processed_at |-> NULL, critical_flags_count |-> 0,
                 error_message |-> NULL ])

PendingIds(docs) == { d \in 1..Len(docs) : docs[d].status = "pending" }

\* Variant: ORDER BY uploaded_at DESC.
get_next_pending_newest(docs) ==
  IF PendingIds(docs) = {} THEN NoDoc
  ELSE CHOOSE d \in PendingIds(docs) :
         \A e \in PendingIds(docs) :
           \/ docs[d].uploaded_at > docs[e].uploaded_at
           \/ docs[d].uploaded_at = docs[e].uploaded_at /\ d <= e

\* Variant: among rows of equal uploaded_at the one inserted last.
get_next_pending_last_tie(docs) ==
  IF PendingIds(docs) = {} THEN NoDoc
  ELSE CHOOSE d \in PendingIds(docs) :
         \A e \in PendingIds(docs) :
           \/ docs[d].uploaded_at < docs[e].uploaded_at
           \/ docs[d].uploaded_at = docs[e].uploaded_at /\ d >= e

\* Variant: WHERE status = 'queued', a status no document has.
get_next_pending_queued(docs) == NoDoc

\* get_next_pending: SELECT ... WHERE status = 'pending' ORDER BY uploaded_at
\* ASC LIMIT 1; NoDoc when fetchone() returns None.  Read only.  The query
\* names no second sort key.  SQLite walks idx_documents_status (or the
\* table) in rowid order and its LIMIT 1 sorter keeps the first row of those
\* with the least key, so among rows of equal uploaded_at the one of least
\* rowid comes back, and rowids grow with every INSERT since no row is ever
\* deleted.
get_next_pending(docs) ==
  IF PendingIds(docs) = {} THEN NoDoc
  ELSE CHOOSE d \in PendingIds(docs) :
         \A e \in PendingIds(docs) :
           \/ docs[d].uploaded_at < docs[e].uploaded_at
           \/ docs[d].uploaded_at = docs[e].uploaded_at /\ d <= e

\* set_document_status: 'complete' and 'failed' also write processed_at,
\* 'failed' also writes error_message; any other status writes status alone.
set_document_status(docs, doc_id, status, error, t) ==
  IF doc_id \notin 1..Len(docs) THEN docs
  ELSE IF status = "complete"
       THEN [docs EXCEPT ![doc_id].status = status,
                         ![doc_id].processed_at = t]
  ELSE IF status = "failed"
       THEN [docs EXCEPT ![doc_id].status = status,
                         ![doc_id].processed_at = t,
                         ![doc_id].error_message = error]
  ELSE [docs EXCEPT ![doc_id].status = status]

\* Variant: SET critical_flags_count = critical_flags_count + 1.
increment_critical_flags_by_one(docs, doc_id, count) ==
  IF doc_id \notin 1..Len(docs) THEN docs
  ELSE [docs EXCEPT ![doc_id].critical_flags_count = @ + 1]

increment_critical_flags(docs, doc_id, count) ==
  IF doc_id \notin 1..Len(docs) THEN docs
  ELSE [docs EXCEPT ![doc_id].critical_flags_count = @ + count]

\* Variant: UPDATE documents SET status = 'pending' with no WHERE clause.
recover_every_document(docs) ==
  [ d \in 1..Len(docs) |-> [docs[d] EXCEPT !.status = "pending"] ]

\* Variant: no row is reset.
recover_no_document(docs) == docs

\* recover_stalled_documents: UPDATE documents SET status = 'pending'
\* WHERE status = 'processing'; returns cursor.rowcount.
recover_stalled_documents(docs) ==
  [ d \in 1..Len(docs) |->
      IF docs[d].status = "processing"
      THEN [docs[d] EXCEPT !.status = "pending"]
      ELSE docs[d] ]

recover_rowcount(docs) ==
  Cardinality({ d \in 1..Len(docs) : docs[d].status = "processing" })

\* Variant: the extraction output is kept in memory and not stored.
insert_pipeline_result_unsaved(results, document_id, stage) ==
  IF stage = "extraction" THEN results
  ELSE Append(results, [ document_id |-> document_id, stage |-> stage ])

insert_pipeline_result(results, document_id, stage) ==
  Append(results, [ document_id |-> document_id, stage |-> stage ])

\* insert_safety_flag: resolved defaults to 0; cursor.lastrowid is the new
\* row's id, the length of the table since no flag is ever deleted.
insert_safety_flag(flags, document_id, flag_type, severity) ==
  Append(flags, [ document_id |-> document_id, flag_type |-> flag_type,
                  severity |-> severity, resolved |-> FALSE ])

\* Variant: the UPDATE without its WHERE clause.
resolve_safety_flag_all(flags, flag_id) ==
  [ f \in 1..Len(flags) |-> [flags[f] EXCEPT !.resolved = TRUE] ]

\* Variant: SET resolved = 1 - resolved.
resolve_safety_flag_toggle(flags, flag_id) ==
  IF flag_id \in 1..Len(flags)
  THEN [flags EXCEPT ![flag_id].resolved = ~ @]
  ELSE flags

\* resolve_safety_flag: UPDATE safety_flags SET resolved = 1 WHERE id = ?
resolve_safety_flag(flags, flag_id) ==
  IF flag_id \in 1..Len(flags)
  THEN [flags EXCEPT ![flag_id].resolved = TRUE]
  ELSE flags

\* Variant: the endpoint never sees a zero rowcount.
resolve_rowcount_one(flags, flag_id) == 1

\* cursor.rowcount > 0: SQLite counts every row the WHERE clause matches,
\* whether or not the UPDATE changes its value.
resolve_rowcount(flags, flag_id) ==
  IF flag_id \in 1..Len(flags) THEN 1 ELSE 0

\* Variant: the counters are added, last_seen is not written.
update_heartbeat_counters(hb, docs_delta, flags_delta, t) ==
  [hb EXCEPT !.documents_processed_total = @ + docs_delta,
             !.flags_raised_total = @ + flags_delta]

update_heartbeat(hb, docs_delta, flags_delta, t) ==
  [hb EXCEPT !.last_seen = t,
             !.documents_processed_total = @ + docs_delta,
             !.flags_raised_total = @ + flags_delta]

\* Variant: the INSERT without the DELETE.
write_log_unpruned(log, event, document_id, stage) ==
  Append(log, [ event |-> event, document_id |-> document_id,
                stage |-> stage ])

\* write_log: INSERT one row, then DELETE all but the newest rows, in one
\* transaction.  The model keeps the newest LogWindow rows of the table.
write_log(log, event, document_id, stage) ==
  LET all == Append(log, [ event |-> event, document_id |-> document_id,
                           stage |-> stage ])
  IN  SubSeq(all, Len(all) - Min(Len(all), LogWindow) + 1, Len(all))

(* ------------------------------ alerts.py ----------------------------- *)

\* dispatch_alert: the structured AUTONOMOUS_ALERT record (and the webhook
\* payload, which is the same record).  'post' is the state of the record's
\* webhook POST, which dispatch_alert leaves to a thread of its own
\* (alerts.py:109-115) and does not wait for.
dispatch_alert(sent, doc_id, flag_id, flag_type, severity) ==
  Append(sent, [ document_id |-> doc_id, flag_id |-> flag_id,
                 flag_type |-> flag_type, severity |-> severity,
                 post |-> "pending" ])

(* ------------------------- agent.py: classification ------------------- *)

\* Variant: the default severity for every name.
_classify_check_severity_default(check_name) == "MEDIUM"

_classify_check_severity(check_name) ==
  CASE check_name = "Dose Consistency"          -> "HIGH"
    [] check_name = "PII De-identification"     -> "HIGH"
    [] check_name = "Drug Name Standardization" -> "MEDIUM"
    [] check_name = "ICD-10 Code Validity"      -> "MEDIUM"
    [] check_name = "FHIR R4 Schema"            -> "LOW"
    [] OTHER                                    -> "MEDIUM"

_check_name_to_type(check_name) ==
  CASE check_name = "Dose Consistency"          -> "DOSE_VARIANCE"
    [] check_name = "Drug Name Standardization" -> "AMBIGUOUS_NAME"
    [] check_name = "ICD-10 Code Validity"      -> "CODING_ERROR"
    [] check_name = "FHIR R4 Schema"            -> "SCHEMA_ERROR"
    [] check_name = "PII De-identification"     -> "PII_LEAK"
    [] OTHER                                    -> "OTHER"

(* --------------------------- thread state ----------------------------- *)

\* Locals of a thread that is not inside _tick.
Locals(pc) ==
  [ pc |-> pc, doc |-> NoDoc, exc |-> NULL, raw_flags |-> <<>>,
    checks |-> <<>>, critical_count |-> 0, flag_id |-> 0, recovered |-> 0 ]

\* Where a thread is once _tick returns: the loop goes to its wait
\* (agent.py:43), the process-now thread ends (main.py:158).
TickReturn(t) == IF t = "loop" THEN Locals("wait") ELSE Locals("off")

\* agent.py:126: flag.get("severity", "LOW")
flag_severity(flag) ==
  IF "severity" \in DOMAIN flag THEN flag.severity ELSE "LOW"

\* Variant: the test of the validation branch, severity in ("HIGH",
\* "CRITICAL").
RECURSIVE DropNonHigh_critical(_)
DropNonHigh_critical(flags) ==
  IF flags = <<>> THEN <<>>
  ELSE IF flag_severity(Head(flags)) \in { "HIGH", "CRITICAL" } THEN flags
  ELSE DropNonHigh_critical(Tail(flags))

\* The loop body of agent.py:125-127 runs its branch for HIGH flags only:
\* the flags still to handle, from the next HIGH one on.
\* Variant: the branch runs for every flag.
DropNonHigh_none(flags) == flags

RECURSIVE DropNonHigh(_)
DropNonHigh(flags) ==
  IF flags = <<>> THEN <<>>
  ELSE IF flag_severity(Head(flags)) = "HIGH" THEN flags
  ELSE DropNonHigh(Tail(flags))

\* The failed checks of a validation report, in the report's order
\* (agent.py:175-176).
FailedChecks(failed) ==
  SelectSeq(CheckNames, LAMBDA c : c \in failed)

Init ==
  /\ documents = <<>>
  /\ pipeline_results = <<>>
  /\ safety_flags = <<>>
  /\ now = 0
  /\ agent_heartbeat = [ last_seen |-> 0, documents_processed_total |-> 0,
                         flags_raised_total |-> 0, started_at |-> 0 ]
  /\ agent_log = <<>>
  /\ alerts = <<>>
  /\ th = [ t \in Threads |-> IF t = "loop" THEN Locals("recover")
                                            ELSE Locals("off") ]
  /\ reply = <<>>
  /\ crashes = 0
  /\ pn_calls = 0
  /\ stop_event = FALSE
  /\ entered = << >>

(* ------------------------ agent.py: run_agent_loop -------------------- *)

\* agent.py:28
Recover ==
  /\ th["loop"].pc = "recover"
  /\ documents' = recover_stalled_documents(documents)
  /\ th' = [th EXCEPT !["loop"].recovered = recover_rowcount(documents),
                      !["loop"].pc = IF recover_rowcount(documents) > 0
                                     THEN "recovery_log" ELSE "startup_hb"]
  /\ UNCHANGED << pipeline_results, safety_flags, agent_heartbeat, agent_log,
                  alerts, now, reply, crashes, pn_calls, stop_event,
                  entered >>

\* agent.py:29-32
RecoveryLog ==
  /\ th["loop"].pc = "recovery_log"
  /\ agent_log' = write_log(agent_log, "recovery", NoDoc, NULL)
  /\ th' = [th EXCEPT !["loop"].pc = "startup_hb"]
  /\ UNCHANGED << documents, pipeline_results, safety_flags, agent_heartbeat,
                  alerts, now, reply, crashes, pn_calls, stop_event,
                  entered >>

\* agent.py:34
StartupHeartbeat ==
  /\ th["loop"].pc = "startup_hb"
  /\ agent_heartbeat' = update_heartbeat(agent_heartbeat, 0, 0, now)
  /\ th' = [th EXCEPT !["loop"].pc = "startup_log"]
  /\ UNCHANGED << documents, pipeline_results, safety_flags, agent_log,
                  alerts, now, reply, crashes, pn_calls, stop_event,
                  entered >>

\* agent.py:35-39: the startup entry, then the loop enters its first tick.
StartupLog ==
  /\ th["loop"].pc = "startup_log"
  /\ agent_log' = write_log(agent_log, "startup", NoDoc, NULL)
  /\ th' = [th EXCEPT !["loop"] =
              Locals(IF stop_event THEN "shutdown_log" ELSE "tick_hb")]
  /\ UNCHANGED << documents, pipeline_results, safety_flags, agent_heartbeat,
                  alerts, now, reply, crashes, pn_calls, stop_event,
                  entered >>

\* agent.py:43, 37-39: the interval elapses, the event is not set and the
\* next tick starts.
Wake ==
  /\ th["loop"].pc = "wait"
  /\ ~stop_event
  /\ th' = [th EXCEPT !["loop"].pc = "tick_hb"]
  /\ UNCHANGED << documents, pipeline_results, safety_flags, agent_heartbeat,
                  agent_log, alerts, now, reply, crashes, pn_calls,
                  stop_event, entered >>

\* main.py:149-160: a thread that runs _tick once.
process_now ==
  /\ th["pn"].pc = "off"
  /\ pn_calls < MaxProcessNow
  /\ pn_calls' = pn_calls + 1
  /\ th' = [th EXCEPT !["pn"] = Locals("tick_hb")]
  /\ UNCHANGED << documents, pipeline_results, safety_flags, agent_heartbeat,
                  agent_log, alerts, now, reply, crashes, stop_event,
                  entered >>

(* ------------------------------ agent.py: _tick ----------------------- *)

\* agent.py:50
TickHeartbeat(t) ==
  /\ th[t].pc = "tick_hb"
  /\ agent_heartbeat' = update_heartbeat(agent_heartbeat, 0, 0, now)
  /\ th' = [th EXCEPT ![t].pc = "dequeue"]
  /\ UNCHANGED << documents, pipeline_results, safety_flags, agent_log,
                  alerts, now, reply, crashes, pn_calls, stop_event,
                  entered >>

\* agent.py:52-53, 57: the SELECT; the row is only read.
Dequeue(t) ==
  /\ th[t].pc = "dequeue"
  /\ th' = [th EXCEPT ![t].doc = get_next_pending(documents),
                      ![t].pc = IF get_next_pending(documents) = NoDoc
                                THEN "idle_log" ELSE "doc_start"]
  /\ UNCHANGED << documents, pipeline_results, safety_flags, agent_heartbeat,
                  agent_log, alerts, now, reply, crashes, pn_calls,
                  stop_event, entered >>

\* Variant: the idle tick counts as a processed document.
IdleLog_counted(t) ==
  /\ th[t].pc = "idle_log"
  /\ agent_log' = write_log(agent_log, "idle", NoDoc, NULL)
  /\ agent_heartbeat' = update_heartbeat(agent_heartbeat, 1, 0, now)
  /\ th' = [th EXCEPT ![t] = TickReturn(t)]
  /\ UNCHANGED << documents, pipeline_results, safety_flags, alerts, now,
                  reply, crashes, pn_calls, stop_event, entered >>

\* agent.py:54-55
IdleLog(t) ==
  /\ th[t].pc = "idle_log"
  /\ agent_log' = write_log(agent_log, "idle", NoDoc, NULL)
  /\ th' = [th EXCEPT ![t] = TickReturn(t)]
  /\ UNCHANGED << documents, pipeline_results, safety_flags, agent_heartbeat,
                  alerts, now, reply, crashes, pn_calls, stop_event,
                  entered >>

\* agent.py:62
DocStartLog(t) ==
  /\ th[t].pc = "doc_start"
  /\ agent_log' = write_log(agent_log, "doc_start", th[t].doc, NULL)
  /\ th' = [th EXCEPT ![t].pc = "set_processing"]
  /\ UNCHANGED << documents, pipeline_results, safety_flags, agent_heartbeat,
                  alerts, now, reply, crashes, pn_calls, stop_event,
                  entered >>

\* Times document d became 'processing'.
Entered(d) == IF d \in DOMAIN entered THEN entered[d] ELSE 0

\* agent.py:63
SetProcessing(t) ==
  /\ th[t].pc = "set_processing"
  /\ documents' = set_document_status(documents, th[t].doc, "processing",
                                      NULL, now)
  /\ entered' = IF documents[th[t].doc].status = "processing" THEN entered
                ELSE [ d \in DOMAIN entered \cup { th[t].doc } |->
                         IF d = th[t].doc THEN Entered(d) + 1
                         ELSE entered[d] ]
  /\ th' = [th EXCEPT ![t].pc = "s1_start"]
  /\ UNCHANGED << pipeline_results, safety_flags, agent_heartbeat, agent_log,
                  alerts, now, reply, crashes, pn_calls, stop_event >>

(* -------------------------- agent.py: _run_pipeline ------------------- *)

\* Variant: the exception is recorded and the stage goes on to store its
\* output.
Raised_swallowed(t, stage) ==
  [th EXCEPT ![t].exc = stage,
             ![t].pc = CASE stage = "extraction"      -> "s1_insert"
                         [] stage = "standardization" -> "s2_insert"
                         [] stage = "fhir"            -> "s3_insert"
                         [] OTHER                     -> "s4_insert"]

\* A stage call that raises: control leaves _run_pipeline for the except
\* branch of _tick (agent.py:71) with str(exc).
Raised(t, stage) ==
  [th EXCEPT ![t].exc = stage, ![t].pc = "fail_set"]

\* agent.py:84-93: the stage_start entry and the extraction call.
ExtractionStart(t, raises) ==
  /\ th[t].pc = "s1_start"
  /\ agent_log' = write_log(agent_log, "stage_start", th[t].doc, "extraction")
  /\ \/ th' = [th EXCEPT ![t].pc = "s1_insert"]
     \/ "extraction" \in raises /\ th' = Raised(t, "extraction")
  /\ UNCHANGED << documents, pipeline_results, safety_flags, agent_heartbeat,
                  alerts, now, reply, crashes, pn_calls, stop_event,
                  entered >>

\* agent.py:95-98
ExtractionInsert(t) ==
  /\ th[t].pc = "s1_insert"
  /\ pipeline_results' =
       insert_pipeline_result(pipeline_results, th[t].doc, "extraction")
  /\ th' = [th EXCEPT ![t].pc = "s1_done"]
  /\ UNCHANGED << documents, safety_flags, agent_heartbeat, agent_log,
                  alerts, now, reply, crashes, pn_calls, stop_event,
                  entered >>

\* agent.py:99-104
ExtractionDone(t) ==
  /\ th[t].pc = "s1_done"
  /\ agent_log' = write_log(agent_log, "stage_done", th[t].doc, "extraction")
  /\ th' = [th EXCEPT ![t].pc = "s2_start"]
  /\ UNCHANGED << documents, pipeline_results, safety_flags, agent_heartbeat,
                  alerts, now, reply, crashes, pn_calls, stop_event,
                  entered >>

\* agent.py:107-112: the stage_start entry and the standardization call,
\* whose output carries the list "safety_flags".
StandardizationStart(t, raises, outs) ==
  /\ th[t].pc = "s2_start"
  /\ agent_log' =
       write_log(agent_log, "stage_start", th[t].doc, "standardization")
  /\ \/ \E out \in outs :
          th' = [th EXCEPT ![t].raw_flags = out, ![t].pc = "s2_insert"]
     \/ "standardization" \in raises /\ th' = Raised(t, "standardization")
  /\ UNCHANGED << documents, pipeline_results, safety_flags, agent_heartbeat,
                  alerts, now, reply, crashes, pn_calls, stop_event,
                  entered >>

\* agent.py:114
StandardizationInsert(t) ==
  /\ th[t].pc = "s2_insert"
  /\ pipeline_results' =
       insert_pipeline_result(pipeline_results, th[t].doc, "standardization")
  /\ th' = [th EXCEPT ![t].pc = "s2_done"]
  /\ UNCHANGED << documents, safety_flags, agent_heartbeat, agent_log,
                  alerts, now, reply, crashes, pn_calls, stop_event,
                  entered >>

\* agent.py:115-127: the stage_done entry; critical_count = 0; the loop over
\* raw_flags moves to its first HIGH flag.
StandardizationDone(t) ==
  /\ th[t].pc = "s2_done"
  /\ agent_log' =
       write_log(agent_log, "stage_done", th[t].doc, "standardization")
  /\ th' = [th EXCEPT ![t].critical_count = 0,
                      ![t].raw_flags = DropNonHigh(th[t].raw_flags),
                      ![t].pc = IF DropNonHigh(th[t].raw_flags) = <<>>
                                THEN "s3_start" ELSE "std_flag_insert"]
  /\ UNCHANGED << documents, pipeline_results, safety_flags, agent_heartbeat,
                  alerts, now, reply, crashes, pn_calls, stop_event,
                  entered >>

\* agent.py:128-134
StdFlagInsert(t) ==
  /\ th[t].pc = "std_flag_insert"
  /\ safety_flags' = insert_safety_flag(safety_flags, th[t].doc,
                                        Head(th[t].raw_flags).category,
                                        flag_severity(Head(th[t].raw_flags)))
  /\ th' = [th EXCEPT ![t].flag_id = Len(safety_flags'),
                      ![t].critical_count = @ + 1,
                      ![t].pc = "std_flag_log"]
  /\ UNCHANGED << documents, pipeline_results, agent_heartbeat, agent_log,
                  alerts, now, reply, crashes, pn_calls, stop_event,
                  entered >>

\* agent.py:135-145: the flag entry and dispatch_alert; then the loop moves
\* to the next HIGH flag.
StdFlagLog(t) ==
  /\ th[t].pc = "std_flag_log"
  /\ agent_log' = write_log(agent_log, "flag", th[t].doc, "standardization")
  /\ alerts' = dispatch_alert(alerts, th[t].doc, th[t].flag_id,
                              Head(th[t].raw_flags).category,
                              flag_severity(Head(th[t].raw_flags)))
  /\ th' = [th EXCEPT ![t].raw_flags = DropNonHigh(Tail(th[t].raw_flags)),
                      ![t].pc = IF DropNonHigh(Tail(th[t].raw_flags)) = <<>>
                                THEN "s3_start" ELSE "std_flag_insert"]
  /\ UNCHANGED << documents, pipeline_results, safety_flags, agent_heartbeat,
                  now, reply, crashes, pn_calls, stop_event, entered >>

\* agent.py:148-152: the stage_start entry and build_fhir_bundle.
FhirStart(t, raises) ==
  /\ th[t].pc = "s3_start"
  /\ agent_log' = write_log(agent_log, "stage_start", th[t].doc, "fhir")
  /\ \/ th' = [th EXCEPT ![t].pc = "s3_insert"]
     \/ "fhir" \in raises /\ th' = Raised(t, "fhir")
  /\ UNCHANGED << documents, pipeline_results, safety_flags, agent_heartbeat,
                  alerts, now, reply, crashes, pn_calls, stop_event,
                  entered >>

\* agent.py:154
FhirInsert(t) ==
  /\ th[t].pc = "s3_insert"
  /\ pipeline_results' =
       insert_pipeline_result(pipeline_results, th[t].doc, "fhir")
  /\ th' = [th EXCEPT ![t].pc = "s3_done"]
  /\ UNCHANGED << documents, safety_flags, agent_heartbeat, agent_log,
                  alerts, now, reply, crashes, pn_calls, stop_event,
                  entered >>

\* agent.py:155-160
FhirDone(t) ==
  /\ th[t].pc = "s3_done"
  /\ agent_log' = write_log(agent_log, "stage_done", th[t].doc, "fhir")
  /\ th' = [th EXCEPT ![t].pc = "s4_start"]
  /\ UNCHANGED << documents, pipeline_results, safety_flags, agent_heartbeat,
                  alerts, now, reply, crashes, pn_calls, stop_event,
                  entered >>

\* agent.py:163-170: the stage_start entry and run_validation, whose report
\* lists the five checks, each passed or failed.
ValidationStart(t, raises, reports) ==
  /\ th[t].pc = "s4_start"
  /\ agent_log' = write_log(agent_log, "stage_start", th[t].doc, "validation")
  /\ \/ \E failed \in reports :
          th' = [th EXCEPT ![t].checks = FailedChecks(failed),
                           ![t].pc = "s4_insert"]
     \/ "validation" \in raises /\ th' = Raised(t, "validation")
  /\ UNCHANGED << documents, pipeline_results, safety_flags, agent_heartbeat,
                  alerts, now, reply, crashes, pn_calls, stop_event,
                  entered >>

\* agent.py:172-176
ValidationInsert(t) ==
  /\ th[t].pc = "s4_insert"
  /\ pipeline_results' =
       insert_pipeline_result(pipeline_results, th[t].doc, "validation")
  /\ th' = [th EXCEPT ![t].pc = IF th[t].checks = <<>>
                                THEN "s4_done" ELSE "chk_flag_insert"]
  /\ UNCHANGED << documents, safety_flags, agent_heartbeat, agent_log,
                  alerts, now, reply, crashes, pn_calls, stop_event,
                  entered >>

\* agent.py:177-185
CheckFlagInsert(t) ==
  /\ th[t].pc = "chk_flag_insert"
  /\ safety_flags' =
       insert_safety_flag(safety_flags, th[t].doc,
                          _check_name_to_type(Head(th[t].checks)),
                          _classify_check_severity(Head(th[t].checks)))
  /\ th' = [th EXCEPT ![t].flag_id = Len(safety_flags'),
                      ![t].critical_count = @ + 1,
                      ![t].pc = "chk_flag_log"]
  /\ UNCHANGED << documents, pipeline_results, agent_heartbeat, agent_log,
                  alerts, now, reply, crashes, pn_calls, stop_event,
                  entered >>

\* Variant: dispatch_alert for every failed check.
CheckFlagLog_every(t) ==
  /\ th[t].pc = "chk_flag_log"
  /\ agent_log' = write_log(agent_log, "flag", th[t].doc, "validation")
  /\ alerts' = dispatch_alert(alerts, th[t].doc, th[t].flag_id,
                              _check_name_to_type(Head(th[t].checks)),
                              _classify_check_severity(Head(th[t].checks)))
  /\ th' = [th EXCEPT ![t].checks = Tail(th[t].checks),
                      ![t].pc = IF Tail(th[t].checks) = <<>>
                                THEN "s4_done" ELSE "chk_flag_insert"]
  /\ UNCHANGED << documents, pipeline_results, safety_flags, agent_heartbeat,
                  now, reply, crashes, pn_calls, stop_event, entered >>

\* agent.py:186-195: the flag entry, and dispatch_alert for HIGH/CRITICAL.
CheckFlagLog(t) ==
  /\ th[t].pc = "chk_flag_log"
  /\ agent_log' = write_log(agent_log, "flag", th[t].doc, "validation")
  /\ alerts' =
       IF _classify_check_severity(Head(th[t].checks)) \in {"HIGH", "CRITICAL"}
       THEN dispatch_alert(alerts, th[t].doc, th[t].flag_id,
                           _check_name_to_type(Head(th[t].checks)),
                           _classify_check_severity(Head(th[t].checks)))
       ELSE alerts
  /\ th' = [th EXCEPT ![t].checks = Tail(th[t].checks),
                      ![t].pc = IF Tail(th[t].checks) = <<>>
                                THEN "s4_done" ELSE "chk_flag_insert"]
  /\ UNCHANGED << documents, pipeline_results, safety_flags, agent_heartbeat,
                  now, reply, crashes, pn_calls, stop_event, entered >>

\* agent.py:197-205
ValidationDone(t) ==
  /\ th[t].pc = "s4_done"
  /\ agent_log' = write_log(agent_log, "stage_done", th[t].doc, "validation")
  /\ th' = [th EXCEPT ![t].pc = IF th[t].critical_count > 0
                                THEN "esc_incr" ELSE "set_complete"]
  /\ UNCHANGED << documents, pipeline_results, safety_flags, agent_heartbeat,
                  alerts, now, reply, crashes, pn_calls, stop_event,
                  entered >>

\* agent.py:206
EscalateIncrement(t) ==
  /\ th[t].pc = "esc_incr"
  /\ documents' = increment_critical_flags(documents, th[t].doc,
                                           th[t].critical_count)
  /\ th' = [th EXCEPT ![t].pc = "esc_hb"]
  /\ UNCHANGED << pipeline_results, safety_flags, agent_heartbeat, agent_log,
                  alerts, now, reply, crashes, pn_calls, stop_event,
                  entered >>

\* agent.py:207
EscalateHeartbeat(t) ==
  /\ th[t].pc = "esc_hb"
  /\ agent_heartbeat' =
       update_heartbeat(agent_heartbeat, 0, th[t].critical_count, now)
  /\ th' = [th EXCEPT ![t].pc = "esc_log"]
  /\ UNCHANGED << documents, pipeline_results, safety_flags, agent_log,
                  alerts, now, reply, crashes, pn_calls, stop_event,
                  entered >>

\* agent.py:208-212
EscalateLog(t) ==
  /\ th[t].pc = "esc_log"
  /\ agent_log' = write_log(agent_log, "escalation", th[t].doc, NULL)
  /\ th' = [th EXCEPT ![t].pc = "set_complete"]
  /\ UNCHANGED << documents, pipeline_results, safety_flags, agent_heartbeat,
                  alerts, now, reply, crashes, pn_calls, stop_event,
                  entered >>

(* ---------------------- agent.py: _tick, after the pipeline ----------- *)

\* agent.py:67
SetComplete(t) ==
  /\ th[t].pc = "set_complete"
  /\ documents' = set_document_status(documents, th[t].doc, "complete",
                                      NULL, now)
  /\ th' = [th EXCEPT ![t].pc = "done_hb"]
  /\ UNCHANGED << pipeline_results, safety_flags, agent_heartbeat, agent_log,
                  alerts, now, reply, crashes, pn_calls, stop_event,
                  entered >>

\* agent.py:68
CompleteHeartbeat(t) ==
  /\ th[t].pc = "done_hb"
  /\ agent_heartbeat' = update_heartbeat(agent_heartbeat, 1, 0, now)
  /\ th' = [th EXCEPT ![t].pc = "done_log"]
  /\ UNCHANGED << documents, pipeline_results, safety_flags, agent_log,
                  alerts, now, reply, crashes, pn_calls, stop_event,
                  entered >>

\* agent.py:69-70
CompleteLog(t) ==
  /\ th[t].pc = "done_log"
  /\ agent_log' = write_log(agent_log, "doc_complete", th[t].doc, NULL)
  /\ th' = [th EXCEPT ![t] = TickReturn(t)]
  /\ UNCHANGED << documents, pipeline_results, safety_flags, agent_heartbeat,
                  alerts, now, reply, crashes, pn_calls, stop_event,
                  entered >>

\* agent.py:71-73
SetFailed(t) ==
  /\ th[t].pc = "fail_set"
  /\ documents' = set_document_status(documents, th[t].doc, "failed",
                                      th[t].exc, now)
  /\ th' = [th EXCEPT ![t].pc = "fail_log"]
  /\ UNCHANGED << pipeline_results, safety_flags, agent_heartbeat, agent_log,
                  alerts, now, reply, crashes, pn_calls, stop_event,
                  entered >>

\* agent.py:74
FailedLog(t) ==
  /\ th[t].pc = "fail_log"
  /\ agent_log' = write_log(agent_log, "doc_failed", th[t].doc, NULL)
  /\ th' = [th EXCEPT ![t] = TickReturn(t)]
  /\ UNCHANGED << documents, pipeline_results, safety_flags, agent_heartbeat,
                  alerts, now, reply, crashes, pn_calls, stop_event,
                  entered >>

(* ------------------------------ environment --------------------------- *)

\* intake.py:46-82 with database.py:125-130: one new pending row.  _now() is
\* datetime.now(), the wall clock, which an adjustment can set back between
\* two requests: the timestamp is any value up to the latest clock reading.
intake_document(max) ==
  /\ Len(documents) < max
  /\ \E uploaded \in 0..now :
       documents' = insert_document(documents, uploaded)
  /\ UNCHANGED << pipeline_results, safety_flags, agent_heartbeat, agent_log,
                  alerts, now, th, reply, crashes, pn_calls, stop_event,
                  entered >>

LastTwo(s) == IF Len(s) <= 2 THEN s ELSE SubSeq(s, Len(s) - 1, Len(s))

\* alerts.py:63-69: 404 when resolve_safety_flag matched no row.
resolve_alert(flag_id) ==
  /\ safety_flags' = resolve_safety_flag(safety_flags, flag_id)
  /\ reply' = LastTwo(Append(reply,
                [ flag_id |-> flag_id,
                  status |-> IF resolve_rowcount(safety_flags, flag_id) > 0
                             THEN "resolved" ELSE "not_found" ]))
  /\ UNCHANGED << documents, pipeline_results, agent_heartbeat, agent_log,
                  alerts, now, th, crashes, pn_calls, stop_event, entered >>

\* Flag ids a client may send: every id in the table and the one past it.
FlagIdInputs == 1..(Len(safety_flags) + 1)

\* Time passes.
AdvanceClock ==
  /\ now < MaxTime
  /\ now' = now + 1
  /\ UNCHANGED << documents, pipeline_results, safety_flags, agent_heartbeat,
                  agent_log, alerts, th, reply, crashes, pn_calls,
                  stop_event, entered >>

\* Variant: INSERT OR REPLACE, a new seed row at every start.
init_db_replace(hb, t) ==
  [ last_seen |-> t, documents_processed_total |-> 0,
    flags_raised_total |-> 0, started_at |-> t ]

\* database.py:48-120 on a store that init_db has set up before: every
\* CREATE is IF NOT EXISTS and the seed of agent_heartbeat is INSERT OR
\* IGNORE under the key 1 the row already has, so the row stays as it is.
init_db(hb, t) == hb

\* The process is killed at any point and started again: every thread is
\* gone, the store is what was committed; lifespan (main.py:55-67) runs
\* init_db and starts the agent thread.
CrashRestart ==
  /\ crashes < MaxCrashes
  /\ crashes' = crashes + 1
  /\ stop_event' = FALSE
  /\ agent_heartbeat' = init_db(agent_heartbeat, now)
  /\ th' = [ t \in Threads |-> IF t = "loop" THEN Locals("recover")
                                             ELSE Locals("off") ]
  /\ UNCHANGED << documents, pipeline_results, safety_flags, agent_log,
                  alerts, now, reply, pn_calls, entered >>

(* ------------------------------ scenarios ----------------------------- *)

\* The steps of _tick, grouped.  A specification fixes which stages may
\* raise and what the standardization and validation stages may return, and
\* takes the groups whose steps those inputs can reach.

\* agent.py:49-63
TickQueue(t) ==
  \/ TickHeartbeat(t) \/ Dequeue(t) \/ IdleLog(t) \/ DocStartLog(t)
  \/ SetProcessing(t)

\* agent.py:83-172, the four stages
TickStages(t, raises, outs, reports) ==
  \/ ExtractionStart(t, raises) \/ ExtractionInsert(t) \/ ExtractionDone(t)
  \/ StandardizationStart(t, raises, outs) \/ StandardizationInsert(t)
  \/ StandardizationDone(t)
  \/ FhirStart(t, raises) \/ FhirInsert(t) \/ FhirDone(t)
  \/ ValidationStart(t, raises, reports) \/ ValidationInsert(t)
  \/ ValidationDone(t)

\* agent.py:122-145, 174-195, 205-212
TickFlags(t) ==
  \/ StdFlagInsert(t) \/ StdFlagLog(t)
  \/ CheckFlagInsert(t) \/ CheckFlagLog(t)
  \/ EscalateIncrement(t) \/ EscalateHeartbeat(t) \/ EscalateLog(t)

\* agent.py:67-70
TickComplete(t) == SetComplete(t) \/ CompleteHeartbeat(t) \/ CompleteLog(t)

\* agent.py:71-74
TickFailed(t) == SetFailed(t) \/ FailedLog(t)

\* agent.py:25-46 when recovery finds nothing to reset
LoopBoot == Recover \/ StartupHeartbeat \/ StartupLog \/ Wake

\* agent.py:25-46
LoopStart == LoopBoot \/ RecoveryLog

AnyStage == Range(Stages)
NoFlags == { <<>> }
AllPass == { {} }

\* _tick with every outcome of every stage.
Tick(t) ==
  \/ TickQueue(t)
  \/ TickStages(t, AnyStage, StdOutputs, ValidationOutcomes)
  \/ TickFlags(t) \/ TickComplete(t) \/ TickFailed(t)

\* _tick when the stages raise nothing the set 'raises' does not hold and
\* report no flag and no failed check.
TickPlain(t, raises) ==
  \/ TickQueue(t)
  \/ TickStages(t, raises, NoFlags, AllPass)
  \/ TickComplete(t)

(* ---------------------------- specifications -------------------------- *)

\* The stages that may raise where one failing stage is enough.
ExtractionRaises == { "extraction" }

\* Spec: the agent thread and a process-now thread over one store, documents
\* arriving at any time; extraction may raise.
LoopRace == LoopStart \/ TickPlain("loop", ExtractionRaises) \/ TickFailed("loop")
PnRace == TickPlain("pn", ExtractionRaises) \/ TickFailed("pn")

Next ==
  \/ LoopRace
  \/ process_now
  \/ PnRace
  \/ intake_document(MaxDocs)

Spec == Init /\ [][Next]_vars

(* ------------------------------- C1 ----------------------------------- *)

Processing == { d \in DocIds : documents[d].status = "processing" }

\* C1: in every reachable state at most one document has status
\* 'processing', whatever the interleaving of the timer-driven tick, the
\* process-now ticks and the submissions.
C1_AtMostOneProcessing == Cardinality(Processing) <= 1

(* ------------------------------- C2 ----------------------------------- *)

\* A thread that has taken a row from get_next_pending and not yet returned
\* from _tick.
Holds(t, d) == th[t].doc = d /\ d # NoDoc

\* C2: a pending document is never claimed by two ticks: no two threads hold
\* the same document at once.
C2_NoDoubleClaim ==
  \A t1, t2 \in Threads :
    t1 # t2 => ~ (\E d \in DocIds : Holds(t1, d) /\ Holds(t2, d))

(* ------------------------------- C9 ----------------------------------- *)

\* C9: a document that a failing stage left 'failed' stays 'failed': no step
\* of any tick changes the status of a failed document.
C9_FailedStaysFailed ==
  [][ \A d \in DocIds :
        documents[d].status = "failed" => documents'[d].status = "failed" ]_vars

(* ------------------- crash and restart, one document ------------------ *)

StandardizationRaises == { "standardization" }

LoopRecovery ==
  LoopStart \/ TickPlain("loop", StandardizationRaises) \/ TickFailed("loop")
PnRecovery == TickPlain("pn", StandardizationRaises) \/ TickFailed("pn")

NextRecovery ==
  \/ LoopRecovery
  \/ process_now
  \/ PnRecovery
  \/ intake_document(MaxDocsDeep)
  \/ CrashRestart

SpecRecovery == Init /\ [][NextRecovery]_vars

\* The agent thread keeps running (agent.py:41-46 loops until the stop event)
\* and a process-now thread, once started, runs its tick to the end; every
\* stage call returns or raises.
LiveRecovery ==
  SpecRecovery /\ WF_vars(LoopRecovery) /\ WF_vars(PnRecovery)

(* ------------------------------- C3 ----------------------------------- *)

\* The loop's step from pc 'from' that is not the kill.
LoopLeaves(from) ==
  /\ th["loop"].pc = from
  /\ th'["loop"].pc # from
  /\ crashes' = crashes

\* C3 as stated: at the moment the agent thread enters its first tick no
\* document is 'processing'.
C3_NoneProcessingAtFirstTick ==
  [][ (LoopLeaves("startup_log") /\ th'["loop"].pc = "tick_hb")
        => \A d \in 1..Len(documents') :
             documents'[d].status # "processing" ]_vars

\* C3, amended: the recovery step comes before the agent thread's first tick
\* and resets exactly the documents that are 'processing' at that step to
\* 'pending', every other row and every other column staying as it was; it
\* returns their number, which is logged as a 'recovery' entry exactly when
\* it is not zero; right after the step no document is 'processing'.
C3_RecoveryResetsProcessing ==
  [][ /\ LoopLeaves("recover") =>
           /\ Len(documents') = Len(documents)
           /\ \A d \in DocIds :
                /\ documents[d].status = "processing"
                     => documents'[d] =
                          [documents[d] EXCEPT !.status = "pending"]
                /\ documents[d].status # "processing"
                     => documents'[d] = documents[d]
           /\ th'["loop"].recovered = Cardinality(Processing)
           /\ th'["loop"].pc = IF Cardinality(Processing) > 0
                               THEN "recovery_log" ELSE "startup_hb"
      /\ LoopLeaves("recovery_log") =>
           /\ agent_log'[Len(agent_log')].event = "recovery"
           /\ th'["loop"].pc = "startup_hb"
      /\ LoopLeaves("startup_hb") => th'["loop"].pc = "startup_log"
      /\ (th'["loop"].pc = "tick_hb" /\ th["loop"].pc # "tick_hb")
           => th["loop"].pc \in { "startup_log", "wait" } ]_vars

\* After a kill, recovery has just reset the one document that the agent
\* thread had left 'processing'.
C3_Witness ==
  /\ crashes = 1
  /\ pn_calls = 0
  /\ th["loop"].pc = "recovery_log"
  /\ th["loop"].recovered = 1
  /\ Len(documents) = 1
  /\ documents[1].status = "pending"

(* ------------------------------- C4 ----------------------------------- *)

\* The process was killed while document d was 'processing' and has just
\* been started again.
Killed(d) ==
  /\ crashes > 0
  /\ th["loop"].pc = "recover"
  /\ th["pn"].pc = "off"
  /\ d \in DocIds
  /\ documents[d].status = "processing"

StatusIn(d, statuses) == d \in DocIds /\ documents[d].status \in statuses

StageRows(d, stage) ==
  { i \in 1..Len(pipeline_results) :
      /\ pipeline_results[i].document_id = d
      /\ pipeline_results[i].stage = stage }

\* C4: a document that was 'processing' when the process was killed becomes
\* 'pending' again after the restart and then reaches 'complete' or 'failed',
\* with no step other than those of the agent's own threads.
C4_KilledDocumentFinishes ==
  \A d \in 1..MaxDocsDeep :
    /\ Killed(d) ~> StatusIn(d, { "pending" })
    /\ Killed(d) ~> StatusIn(d, { "complete", "failed" })

\* The agent thread alone ran the document twice, before and after the kill,
\* and completed it.
C4_Witness ==
  /\ crashes = 1
  /\ pn_calls = 0
  /\ StatusIn(1, { "complete" })
  /\ Cardinality(StageRows(1, "extraction")) = 2

(* --------------------------- dequeue order ---------------------------- *)

NextFifo ==
  \/ LoopBoot
  \/ TickPlain("loop", ExtractionRaises)
  \/ TickFailed("loop")
  \/ intake_document(MaxDocs)
  \/ AdvanceClock

SpecFifo == Init /\ [][NextFifo]_vars

\* Thread t's dequeue step that found a row.
Dequeues(t) == th[t].pc = "dequeue" /\ th'[t].pc = "doc_start"

(* ------------------------------- C5 ----------------------------------- *)

\* C5: the document a tick dequeues is pending and no document pending at
\* that moment has a strictly smaller uploaded_at.
C5_OldestFirst ==
  [][ \A t \in Threads :
        Dequeues(t) =>
          /\ th'[t].doc \in PendingIds(documents)
          /\ \A e \in PendingIds(documents) :
               documents[e].uploaded_at
                 >= documents[th'[t].doc].uploaded_at ]_vars

\* The tick took the document submitted second, whose uploaded_at is the
\* smaller one, while the first is still pending.
C5_Witness ==
  /\ th["loop"].pc = "doc_start"
  /\ th["loop"].doc = 2
  /\ documents[1].status = "pending"
  /\ documents[2].uploaded_at < documents[1].uploaded_at

(* ------------------------------- C6 ----------------------------------- *)

NextFlags ==
  \/ LoopBoot
  \/ Tick("loop")
  \/ intake_document(MaxDocsDeep)
  \/ \E flag_id \in FlagIdInputs : resolve_alert(flag_id)

SpecFlags == Init /\ [][NextFlags]_vars

\* The answer a resolve request has just received.
Answered == reply' # reply
LastReply == reply[Len(reply)]

(* ------------------------------- C7 ----------------------------------- *)

\* C7: resolving an existing flag answers success and leaves it resolved,
\* whether or not it was resolved before, and no step takes a resolved flag
\* back to unresolved or removes it.
C7_ResolveIdempotent ==
  [][ /\ \A f \in 1..Len(safety_flags) :
           safety_flags[f].resolved
             => /\ f \in 1..Len(safety_flags')
                /\ safety_flags'[f].resolved
      /\ (Answered /\ LastReply'.flag_id \in 1..Len(safety_flags))
           => /\ LastReply'.status = "resolved"
              /\ safety_flags'[LastReply'.flag_id].resolved ]_vars

\* The same flag was resolved twice, with success both times.
C7_Witness ==
  /\ Len(reply) = 2
  /\ reply[1].flag_id = reply[2].flag_id
  /\ reply[1].status = "resolved"
  /\ reply[2].status = "resolved"
  /\ safety_flags[reply[2].flag_id].resolved

(* ------------------------------- C8 ----------------------------------- *)

\* C8: resolving an id that no flag has answers not-found and changes no
\* table.
C8_UnknownFlagNotFound ==
  [][ (Answered /\ LastReply'.flag_id \notin 1..Len(safety_flags))
        => /\ LastReply'.status = "not_found"
           /\ UNCHANGED << documents, pipeline_results, safety_flags,
                           agent_heartbeat, agent_log >> ]_vars

\* A request for an unknown id was answered while a flag exists.
C8_Witness ==
  /\ Len(reply) > 0
  /\ LastReply.status = "not_found"
  /\ LastReply.flag_id > Len(safety_flags)
  /\ Len(safety_flags) > 0

(* ----------------------- every outcome of the stages ------------------ *)

NextPipeline ==
  \/ LoopStart
  \/ Tick("loop")
  \/ intake_document(MaxDocsDeep)
  \/ CrashRestart

SpecPipeline == Init /\ [][NextPipeline]_vars

(* ------------------------------- C10 ---------------------------------- *)

\* C10 as stated: a document that failed in standardization has an
\* extraction row, no 'fhir' and no 'validation' row, and a
\* critical_flags_count of 0.
C10_NoLaterStageRows ==
  \A d \in DocIds :
    (documents[d].status = "failed"
       /\ documents[d].error_message = "standardization")
      => /\ StageRows(d, "extraction") # {}
         /\ StageRows(d, "fhir") = {}
         /\ StageRows(d, "validation") = {}
         /\ documents[d].critical_flags_count = 0

\* C10, amended: the attempt whose standardization call raises goes straight
\* to the except branch with its extraction row stored, and from the raise on
\* that tick writes no stage row and no flag and changes no document except
\* to mark its own 'failed' with the error, critical_flags_count untouched;
\* rows and counts of an earlier attempt on the document stay as they are.
C10_FailingAttemptWritesNothing ==
  [][ \A t \in Threads :
        /\ (th[t].pc = "s2_start" /\ th'[t].exc = "standardization")
             => /\ th'[t].pc = "fail_set"
                /\ StageRows(th[t].doc, "extraction") # {}
                /\ UNCHANGED << documents, pipeline_results, safety_flags >>
        /\ (th[t].exc = "standardization" /\ th'[t] # th[t]
              /\ crashes' = crashes)
             => /\ UNCHANGED << pipeline_results, safety_flags >>
                /\ documents' =
                     IF th[t].pc = "fail_set"
                     THEN [documents EXCEPT
                             ![th[t].doc].status = "failed",
                             ![th[t].doc].processed_at = now,
                             ![th[t].doc].error_message = "standardization"]
                     ELSE documents ]_vars

\* A first attempt failed in standardization.
C10_Witness ==
  /\ Len(documents) = 1
  /\ documents[1].status = "failed"
  /\ documents[1].error_message = "standardization"
  /\ documents[1].critical_flags_count = 0
  /\ Cardinality(StageRows(1, "extraction")) = 1
  /\ StageRows(1, "fhir") = {}
  /\ StageRows(1, "validation") = {}
  /\ th["loop"].pc = "wait"

(* ------------------------- flags and escalation ----------------------- *)

\* Entries a standardization output may carry, beyond StdFlags.
EscStdFlags ==
  StdFlags \cup { [severity |-> "HIGH",   category |-> "DATE_ANOMALY"],
                  [severity |-> "MEDIUM", category |-> "AMBIGUOUS_NAME"] }

EscStdOutputs == SeqsUpTo(EscStdFlags, MaxEscStdFlags)

EscValidationOutcomes ==
  { F \in SUBSET Range(CheckNames) : Cardinality(F) <= MaxEscFailedChecks }

\* One document through a tick in which no stage raises, with every
\* standardization output and every validation report of the bounds.
NextEscalation ==
  \/ LoopBoot
  \/ TickQueue("loop")
  \/ TickStages("loop", {}, EscStdOutputs, EscValidationOutcomes)
  \/ TickFlags("loop")
  \/ TickComplete("loop")
  \/ intake_document(MaxDocsDeep)

SpecEscalation == Init /\ [][NextEscalation]_vars

\* Thread t's step from pc 'from' to pc 'to'.
Steps(t, from, to) == th[t].pc = from /\ th'[t].pc = to

(* ------------------------------- C11 ---------------------------------- *)

\* The names a check may carry: the five of run_validation and one that no
\* table lists.
CheckNameInputs == Range(CheckNames) \cup { "Unlisted Check" }

\* The table of the claim.
C11_Severity(name) ==
  CASE name \in { "Dose Consistency", "PII De-identification" } -> "HIGH"
    [] name = "FHIR R4 Schema" -> "LOW"
    [] OTHER -> "MEDIUM"

C11_Type(name) ==
  CASE name = "Dose Consistency"          -> "DOSE_VARIANCE"
    [] name = "PII De-identification"     -> "PII_LEAK"
    [] name = "Drug Name Standardization" -> "AMBIGUOUS_NAME"
    [] name = "ICD-10 Code Validity"      -> "CODING_ERROR"
    [] name = "FHIR R4 Schema"            -> "SCHEMA_ERROR"
    [] OTHER                              -> "OTHER"

\* C11: a check name maps to the severity and flag type of the table, any
\* unlisted name to (MEDIUM, OTHER); the tick goes through the failed checks
\* of the report one by one and stores for each exactly one SafetyFlag row,
\* unresolved, with the document, type and severity of that check.
C11_FailedCheckMapping ==
  [][ /\ \A name \in CheckNameInputs :
           /\ _classify_check_severity(name) = C11_Severity(name)
           /\ _check_name_to_type(name) = C11_Type(name)
      /\ \A t \in Threads :
           /\ (th[t].pc = "s4_insert" /\ th'[t].pc # "s4_insert")
                => /\ th'[t].pc = IF th[t].checks = <<>>
                                  THEN "s4_done" ELSE "chk_flag_insert"
                   /\ th'[t].checks = th[t].checks
                   /\ safety_flags' = safety_flags
           /\ (th[t].pc = "chk_flag_insert" /\ th'[t].pc # "chk_flag_insert")
                => /\ th'[t].pc = "chk_flag_log"
                   /\ th'[t].checks = th[t].checks
                   /\ safety_flags' =
                        Append(safety_flags,
                               [ document_id |-> th[t].doc,
                                 flag_type |-> C11_Type(Head(th[t].checks)),
                                 severity |-> C11_Severity(Head(th[t].checks)),
                                 resolved |-> FALSE ])
           /\ (th[t].pc = "chk_flag_log" /\ th'[t].pc # "chk_flag_log")
                => /\ th'[t].checks = Tail(th[t].checks)
                   /\ th'[t].pc = IF Tail(th[t].checks) = <<>>
                                  THEN "s4_done" ELSE "chk_flag_insert"
                   /\ safety_flags' = safety_flags ]_vars

\* Two checks failed, FHIR R4 Schema last, and each has its row.
C11_Witness ==
  /\ th["loop"].pc = "s4_done"
  /\ Len(safety_flags) = 2
  /\ safety_flags[1].severity = "HIGH"
  /\ safety_flags[1].flag_type = "PII_LEAK"
  /\ safety_flags[2].severity = "LOW"
  /\ safety_flags[2].flag_type = "SCHEMA_ERROR"

(* ------------------------------- C12 ---------------------------------- *)

\* The step appends to 'alerts' one payload for flag row flag_id.
Dispatches(flag_id) ==
  /\ Len(alerts') = Len(alerts) + 1
  /\ SubSeq(alerts', 1, Len(alerts)) = alerts
  /\ alerts'[Len(alerts')].flag_id = flag_id
  /\ alerts'[Len(alerts')].document_id = safety_flags[flag_id].document_id
  /\ alerts'[Len(alerts')].flag_type = safety_flags[flag_id].flag_type
  /\ alerts'[Len(alerts')].severity = safety_flags[flag_id].severity

ValidationPcs == { "s4_start", "s4_insert", "chk_flag_insert", "s4_done" }

\* C12: after the row of a failed check is stored, dispatch_alert is called
\* once, with that row's id, document, type and severity, if the severity is
\* HIGH or CRITICAL, and not at all if it is MEDIUM or LOW; no other step of
\* the validation stage dispatches.
C12_DispatchIffHigh ==
  [][ \A t \in Threads :
        /\ (th[t].pc = "chk_flag_log" /\ th'[t].pc # "chk_flag_log")
             => /\ th[t].flag_id \in 1..Len(safety_flags)
                /\ safety_flags[th[t].flag_id].document_id = th[t].doc
                /\ safety_flags[th[t].flag_id].flag_type
                     = C11_Type(Head(th[t].checks))
                /\ IF C11_Severity(Head(th[t].checks)) \in {"HIGH", "CRITICAL"}
                   THEN Dispatches(th[t].flag_id)
                   ELSE alerts' = alerts
        /\ (th[t].pc \in ValidationPcs /\ th'[t] # th[t])
             => alerts' = alerts ]_vars

\* A LOW and a HIGH check failed: two rows, one alert, for the HIGH one.
C12_Witness ==
  /\ th["loop"].pc = "s4_done"
  /\ Len(safety_flags) = 2
  /\ safety_flags[1].severity = "HIGH"
  /\ safety_flags[2].flag_type = "SCHEMA_ERROR"
  /\ Len(alerts) = 1
  /\ alerts[1].flag_id = 1

(* ------------------------------- C13 ---------------------------------- *)

FlagIdsOf(d) ==
  { i \in 1..Len(safety_flags) : safety_flags[i].document_id = d }

AlertsOf(d) == { i \in 1..Len(alerts) : alerts[i].document_id = d }

\* The HIGH entries of a list of standardization flags, in order.
HighOf(flags) == SelectSeq(flags, LAMBDA f : f.severity = "HIGH")

StdFlagPcs == { "s2_start", "s2_insert", "s2_done", "std_flag_insert",
                "std_flag_log" }

\* C13: after the standardization result is stored the tick takes the HIGH
\* flags of its output in order; for each it stores one SafetyFlag row, with
\* severity HIGH and the flag's category as flag_type, and then dispatches
\* one alert for that row; flags of other severities get no row and no
\* alert; the fhir stage starts only when no HIGH flag is left, at which
\* point every row has its alert.
C13_StdHighFlagsEscalated ==
  /\ [][ \A t \in Threads :
           /\ (th[t].pc = "s2_done" /\ th'[t].pc # "s2_done")
                => /\ HighOf(th'[t].raw_flags) = HighOf(th[t].raw_flags)
                   /\ th'[t].pc = IF HighOf(th[t].raw_flags) = <<>>
                                  THEN "s3_start" ELSE "std_flag_insert"
           /\ (th[t].pc = "std_flag_insert" /\ th'[t].pc # "std_flag_insert")
                => /\ th'[t].pc = "std_flag_log"
                   /\ HighOf(th'[t].raw_flags) = HighOf(th[t].raw_flags)
                   /\ safety_flags' =
                        Append(safety_flags,
                               [ document_id |-> th[t].doc,
                                 flag_type |->
                                   Head(HighOf(th[t].raw_flags)).category,
                                 severity |-> "HIGH",
                                 resolved |-> FALSE ])
                   /\ th'[t].flag_id = Len(safety_flags')
                   /\ alerts' = alerts
           /\ (th[t].pc = "std_flag_log" /\ th'[t].pc # "std_flag_log")
                => /\ Dispatches(th[t].flag_id)
                   /\ safety_flags' = safety_flags
                   /\ HighOf(th'[t].raw_flags) = Tail(HighOf(th[t].raw_flags))
                   /\ th'[t].pc = IF Tail(HighOf(th[t].raw_flags)) = <<>>
                                  THEN "s3_start" ELSE "std_flag_insert"
           /\ (th[t].pc \in StdFlagPcs \ { "std_flag_insert", "std_flag_log" }
                 /\ th'[t] # th[t])
                => /\ safety_flags' = safety_flags
                   /\ alerts' = alerts ]_vars
  /\ [](\A t \in Threads :
          th[t].pc = "s3_start" =>
            /\ Cardinality(AlertsOf(th[t].doc))
                 = Cardinality(FlagIdsOf(th[t].doc))
            /\ \A i \in FlagIdsOf(th[t].doc) :
                 /\ safety_flags[i].severity = "HIGH"
                 /\ \E a \in AlertsOf(th[t].doc) :
                      /\ alerts[a].flag_id = i
                      /\ alerts[a].flag_type = safety_flags[i].flag_type)

\* The HIGH DATE_ANOMALY flag of the output has its row and its alert, and
\* the fhir stage is about to start.
C13_Witness ==
  /\ th["loop"].pc = "s3_start"
  /\ Len(safety_flags) = 1
  /\ safety_flags[1].flag_type = "DATE_ANOMALY"
  /\ safety_flags[1].severity = "HIGH"
  /\ Len(alerts) = 1
  /\ alerts[1].flag_type = "DATE_ANOMALY"
  /\ StageRows(1, "fhir") = {}

(* ------------------------------- C14 ---------------------------------- *)

\* Standardization outputs with exactly one HIGH flag, a DOSE_VARIANCE one.
DoseDropOutputs ==
  { out \in EscStdOutputs :
      HighOf(out) = << [severity |-> "HIGH", category |-> "DOSE_VARIANCE"] >> }

\* The validation report in which only Dose Consistency fails.
DoseDropReports == { { "Dose Consistency" } }

NextDoseDrop ==
  \/ LoopBoot
  \/ TickQueue("loop")
  \/ TickStages("loop", {}, DoseDropOutputs, DoseDropReports)
  \/ TickFlags("loop")
  \/ TickComplete("loop")
  \/ intake_document(MaxDocsDeep)
  \/ AdvanceClock

SpecDoseDrop == Init /\ [][NextDoseDrop]_vars

\* C14: the document whose standardization reports one HIGH DOSE_VARIANCE
\* flag and whose validation fails only Dose Consistency never fails, is
\* 'processing' only while its tick runs, and once the tick has marked it
\* 'complete' it has exactly two SafetyFlag rows, both HIGH and
\* DOSE_VARIANCE, one alert for each, and a critical_flags_count of 2.
C14_DoseDropEndToEnd ==
  \A d \in DocIds :
    /\ documents[d].status # "failed"
    /\ documents[d].status = "processing" => th["loop"].doc = d
    /\ documents[d].status = "complete" =>
         /\ documents[d].critical_flags_count = 2
         /\ Cardinality(FlagIdsOf(d)) = 2
         /\ \A i \in FlagIdsOf(d) :
              /\ safety_flags[i].severity = "HIGH"
              /\ safety_flags[i].flag_type = "DOSE_VARIANCE"
              /\ Cardinality({ a \in AlertsOf(d) : alerts[a].flag_id = i }) = 1
         /\ Cardinality(AlertsOf(d)) = 2
         /\ \A a \in AlertsOf(d) :
              /\ alerts[a].flag_id \in FlagIdsOf(d)
              /\ alerts[a].severity = "HIGH"
              /\ alerts[a].flag_type = "DOSE_VARIANCE"

\* The tick has returned and the document is complete with its two flags.
C14_Witness ==
  /\ th["loop"].pc = "wait"
  /\ Len(documents) = 1
  /\ documents[1].status = "complete"
  /\ documents[1].critical_flags_count = 2
  /\ Len(safety_flags) = 2
  /\ Len(alerts) = 2
  /\ agent_heartbeat.flags_raised_total = 2

(* ------------------------------ main.py: health ----------------------- *)

\* main.py:131: the age in seconds beyond which the agent counts as stalled.
StallAfterSeconds == 90

\* agent.py:21: the default POLL_INTERVAL_SECONDS.
POLL_INTERVAL == 30

\* Variant: stalled from an age of exactly the threshold on.
health_at_threshold(hb, t) ==
  IF t - hb.last_seen >= StallAfterSeconds THEN "stalled" ELSE "running"

\* main.py:125-134: the status health() reports at clock reading t, from the
\* heartbeat row's last_seen.
health(hb, t) ==
  IF t - hb.last_seen > StallAfterSeconds THEN "stalled" ELSE "running"

\* Time passes, a second or a poll interval at a time.
Elapse ==
  /\ \E step \in { 1, POLL_INTERVAL } :
       /\ now + step <= MaxHealthClock
       /\ now' = now + step
  /\ UNCHANGED << documents, pipeline_results, safety_flags, agent_heartbeat,
                  agent_log, alerts, th, reply, crashes, pn_calls,
                  stop_event, entered >>

\* Ticks on an empty queue, agent.py:50-55.
TickIdle(t) == TickHeartbeat(t) \/ Dequeue(t) \/ IdleLog(t)

NextHealth ==
  \/ LoopBoot
  \/ TickIdle("loop")
  \/ process_now
  \/ TickIdle("pn")
  \/ Elapse

SpecHealth == Init /\ [][NextHealth]_vars

(* ------------------------------- C15 ---------------------------------- *)

HeartbeatAge == now - agent_heartbeat.last_seen

\* C15: health() reports 'stalled' exactly when last_seen is more than 90
\* seconds old and 'running' otherwise; the first step of every tick writes
\* last_seen = now, after which health() reports 'running'.
C15_StalledAfter90 ==
  /\ [](/\ HeartbeatAge > 90 => health(agent_heartbeat, now) = "stalled"
        /\ HeartbeatAge <= 90 => health(agent_heartbeat, now) = "running")
  /\ [][ \A t \in Threads :
           Steps(t, "tick_hb", "dequeue")
             => /\ agent_heartbeat'.last_seen = now
                /\ health(agent_heartbeat', now') = "running" ]_vars

\* No heartbeat for 91 seconds: stalled.
C15_Witness ==
  /\ HeartbeatAge = 91
  /\ health(agent_heartbeat, now) = "stalled"
  /\ th["loop"].pc = "wait"

(* --------------------------- store calls that raise ------------------- *)

\* Positions of _tick before its try block (agent.py:50-63), each a store
\* call.
BeforeTryPcs == { "tick_hb", "dequeue", "idle_log", "doc_start",
                  "set_processing" }

\* Positions inside the try block (agent.py:66-70), each starting with a
\* store call.
InTryPcs == { "s1_start", "s1_insert", "s1_done", "s2_start", "s2_insert",
              "s2_done", "std_flag_insert", "std_flag_log", "s3_start",
              "s3_insert", "s3_done", "s4_start", "s4_insert",
              "chk_flag_insert", "chk_flag_log", "s4_done", "esc_incr",
              "esc_hb", "esc_log", "set_complete", "done_hb", "done_log" }

\* Positions inside the except branch (agent.py:73-74).
ExceptPcs == { "fail_set", "fail_log" }

\* An exception leaves _tick: the agent thread is in the handler of
\* agent.py:40-42; a process-now thread has no handler and ends
\* (main.py:158) with the exception, which 'exc' keeps, uncaught.
Propagated(t) ==
  IF t = "loop" THEN Locals("tick_error")
  ELSE [Locals("off") EXCEPT !.exc = "store"]

\* The store call at thread t's position raises (sqlite3.OperationalError:
\* the file is locked past the 30 s timeout, the disk is full, ...); get_conn
\* rolls back, so no table changes.  Inside the try block the except branch
\* of _tick takes it; elsewhere it leaves _tick.
StoreRaises(t) ==
  /\ th[t].pc \in BeforeTryPcs \cup InTryPcs \cup ExceptPcs
  /\ th' = IF th[t].pc \in InTryPcs
           THEN Raised(t, "store")
           ELSE [th EXCEPT ![t] = Propagated(t)]
  /\ UNCHANGED << documents, pipeline_results, safety_flags, agent_heartbeat,
                  agent_log, alerts, now, reply, crashes, pn_calls,
                  stop_event, entered >>

\* agent.py:40-43: the handler logs an 'error' entry and the loop goes on to
\* its wait.
TickErrorLog ==
  /\ th["loop"].pc = "tick_error"
  /\ agent_log' = write_log(agent_log, "error", NoDoc, NULL)
  /\ th' = [th EXCEPT !["loop"] = Locals("wait")]
  /\ UNCHANGED << documents, pipeline_results, safety_flags, agent_heartbeat,
                  alerts, now, reply, crashes, pn_calls, stop_event,
                  entered >>

\* agent.py:42: the handler's own write_log raises; nothing catches it, the
\* exception leaves run_agent_loop and the agent thread ends.
TickErrorLogRaises ==
  /\ th["loop"].pc = "tick_error"
  /\ th' = [th EXCEPT !["loop"] = Locals("dead")]
  /\ UNCHANGED << documents, pipeline_results, safety_flags, agent_heartbeat,
                  agent_log, alerts, now, reply, crashes, pn_calls,
                  stop_event, entered >>

NextStoreErrors ==
  \/ LoopBoot
  \/ TickPlain("loop", {})
  \/ TickFailed("loop")
  \/ StoreRaises("loop")
  \/ TickErrorLog
  \/ TickErrorLogRaises
  \/ intake_document(MaxDocsDeep)

SpecStoreErrors == Init /\ [][NextStoreErrors]_vars

(* ------------------------------- C16 ---------------------------------- *)

\* C16: no exception raised inside a tick ends the agent thread: the loop is
\* never dead.
C16_LoopNeverDies == th["loop"].pc # "dead"

(* ------------------------------ shutdown ------------------------------ *)

\* main.py:73: lifespan sets the event when the server shuts down.
Shutdown ==
  /\ ~stop_event
  /\ stop_event' = TRUE
  /\ UNCHANGED << documents, pipeline_results, safety_flags, agent_heartbeat,
                  agent_log, alerts, now, th, reply, crashes, pn_calls,
                  entered >>

\* agent.py:43, 37: wait returns at once when the event is set and the
\* while test ends the loop.
StopSeen ==
  /\ th["loop"].pc = "wait"
  /\ stop_event
  /\ th' = [th EXCEPT !["loop"].pc = "shutdown_log"]
  /\ UNCHANGED << documents, pipeline_results, safety_flags, agent_heartbeat,
                  agent_log, alerts, now, reply, crashes, pn_calls,
                  stop_event, entered >>

\* agent.py:45-46: the 'shutdown' entry; run_agent_loop returns.
ShutdownLog ==
  /\ th["loop"].pc = "shutdown_log"
  /\ agent_log' = write_log(agent_log, "shutdown", NoDoc, NULL)
  /\ th' = [th EXCEPT !["loop"].pc = "stopped"]
  /\ UNCHANGED << documents, pipeline_results, safety_flags, agent_heartbeat,
                  alerts, now, reply, crashes, pn_calls, stop_event,
                  entered >>

\* The process is gone: no thread runs.
Exited == [ t \in Threads |-> Locals("exited") ]

\* main.py:74-75: join returns because the agent thread has ended; lifespan
\* returns and the process exits.
JoinReturns ==
  /\ stop_event
  /\ th["loop"].pc = "stopped"
  /\ th' = Exited
  /\ UNCHANGED << documents, pipeline_results, safety_flags, agent_heartbeat,
                  agent_log, alerts, now, reply, crashes, pn_calls,
                  stop_event, entered >>

\* Positions right after a stage's HTTP call, which may take up to its
\* client timeout: 60 s for extraction (minimax_agent.py:167), 120 s for
\* standardization and again for its retry (akash_agent.py:170, 250).
AfterStageCallPcs == { "s1_insert", "s2_insert" }

\* main.py:74-75: join(timeout=10) returns after 10 s while the agent thread
\* is still in its tick; lifespan returns, the process exits and the thread,
\* a daemon (main.py:62-66), ends where it stands.
JoinTimesOut ==
  /\ stop_event
  /\ th["loop"].pc \in AfterStageCallPcs
  /\ th' = Exited
  /\ UNCHANGED << documents, pipeline_results, safety_flags, agent_heartbeat,
                  agent_log, alerts, now, reply, crashes, pn_calls,
                  stop_event, entered >>

\* SpecShutdown: the agent thread alone, stages that return, one submission
\* and a shutdown at any moment.
NextShutdown ==
  \/ LoopBoot
  \/ TickPlain("loop", {})
  \/ intake_document(MaxDocsDeep)
  \/ AdvanceClock
  \/ Shutdown
  \/ StopSeen
  \/ ShutdownLog
  \/ JoinReturns
  \/ JoinTimesOut

SpecShutdown == Init /\ [][NextShutdown]_vars

(* ------------------------------- C17 ---------------------------------- *)

\* C17: shutdown lets the tick in flight run to its end: once the process
\* has exited no document is left 'processing'.
C17_ShutdownLeavesNoneProcessing ==
  th["loop"].pc = "exited" => Processing = {}

(* ------------------------------- C18 ---------------------------------- *)

\* documents.processed_at holds NULL (database.py:58), not a timestamp.
IsNull(v) == ToString(v) = ToString(NULL)

\* Thread t writes processed_at in this step: set_document_status with
\* 'complete' (agent.py:67) or 'failed' (agent.py:73).
WritesProcessedAt(t) ==
  Steps(t, "set_complete", "done_hb") \/ Steps(t, "fail_set", "fail_log")

\* C18: processed_at is null while a document is pending and is written once:
\* every step that writes it, a concurrent tick's included, finds it null.
C18_ProcessedAtWrittenOnce ==
  /\ [](\A d \in DocIds :
          documents[d].status = "pending" => IsNull(documents[d].processed_at))
  /\ [][\A t \in Threads :
          WritesProcessedAt(t) => IsNull(documents[th[t].doc].processed_at)]_vars

(* ------------------------------- C19 ---------------------------------- *)

\* The newest n rows of a log.
Newest(log, n) == SubSeq(log, Len(log) - Min(Len(log), n) + 1, Len(log))

PostOutcomes == { "delivered", "failed", "timed_out" }

\* Variant: a POST that does not get through fails the alert's document.
_post_webhook_fatal(i, outcome) ==
  /\ i \in 1..Len(alerts)
  /\ alerts[i].post = "pending"
  /\ alerts' = [alerts EXCEPT ![i].post = outcome]
  /\ documents' = IF outcome = "delivered" THEN documents
                  ELSE set_document_status(documents, alerts[i].document_id,
                                           "failed", outcome, now)
  /\ UNCHANGED << pipeline_results, safety_flags, agent_heartbeat, agent_log,
                  now, th, reply, crashes, pn_calls, stop_event, entered >>

\* alerts.py:118-133: the thread's POST of alert i ends; every exception is
\* caught and logged, and nothing of the store is touched.
_post_webhook(i, outcome) ==
  /\ i \in 1..Len(alerts)
  /\ alerts[i].post = "pending"
  /\ alerts' = [alerts EXCEPT ![i].post = outcome]
  /\ UNCHANGED << documents, pipeline_results, safety_flags, agent_heartbeat,
                  agent_log, now, th, reply, crashes, pn_calls, stop_event,
                  entered >>

\* The webhook threads dispatch_alert has started (with WEBHOOK_URL set).
WebhookPosts ==
  \E i \in 1..Len(alerts), outcome \in PostOutcomes : _post_webhook(i, outcome)

\* SpecDelivery: the agent thread with standardization flags and failed
\* checks of every severity, and the webhook threads of its alerts.
NextDelivery ==
  \/ LoopBoot
  \/ TickQueue("loop")
  \/ TickStages("loop", {}, EscStdOutputs, EscValidationOutcomes)
  \/ TickFlags("loop")
  \/ TickComplete("loop")
  \/ intake_document(MaxDocsDeep)
  \/ WebhookPosts

SpecDelivery == Init /\ [][NextDelivery]_vars

(* ------------------------------- C20 ---------------------------------- *)

\* The step ends a webhook POST.
PostEnds ==
  \E i \in 1..Len(alerts) :
    i <= Len(alerts') /\ alerts[i].post = "pending" /\ alerts'[i].post # "pending"

\* C20: alert delivery never affects a document's outcome.  The end of a
\* POST, whatever its outcome, changes no document, stage result, flag,
\* counter, log row or tick; the tick goes on while POSTs are pending (a
\* dispatching step moves the tick to its next position at once); a document
\* that is complete stays complete, with one count per flag row, whatever
\* became of its alerts.
C20_DeliveryNeverAffectsOutcome ==
  /\ [][PostEnds => UNCHANGED << documents, pipeline_results, safety_flags,
                                 agent_heartbeat, agent_log, th >>]_vars
  /\ [][Len(alerts') > Len(alerts)
          => th'["loop"].pc # th["loop"].pc]_vars
  /\ [][\A d \in DocIds :
          documents[d].status = "complete"
            => documents'[d] = documents[d]]_vars
  /\ [](\A d \in DocIds :
          documents[d].status = "complete"
            => /\ documents[d].critical_flags_count
                    = Cardinality(FlagIdsOf(d))
               /\ \A stage \in Range(Stages) :
                    Cardinality(StageRows(d, stage)) = 1)

\* A document is complete although one of its alerts' POSTs failed, another
\* timed out and a third has not ended.
C20_Witness ==
  \E d \in DocIds :
    /\ documents[d].status = "complete"
    /\ \E a, b, c \in AlertsOf(d) :
         /\ alerts[a].post = "failed"
         /\ alerts[b].post = "timed_out"
         /\ alerts[c].post = "pending"

(* ------------------------- intake.py: POST /intake --------------------- *)

\* intake.py:32-38
ALLOWED_TYPES == { "image/jpeg", "image/png", "image/gif", "image/webp",
                   "application/pdf" }

\* intake.py:39
MAX_FILE_BYTES == 20 * 1024 * 1024

\* Content types a client may send: the allowed ones and two others.
ContentTypeInputs == ALLOWED_TYPES \cup { "text/plain", "image/tiff" }

\* Payload sizes a client may send, around the ceiling.
SizeInputs == { 0, MAX_FILE_BYTES - 1, MAX_FILE_BYTES, MAX_FILE_BYTES + 1 }

\* Variant: len(contents) >= MAX_FILE_BYTES.
intake_status_at_ceiling(content_type, size) ==
  IF content_type \notin ALLOWED_TYPES THEN 400
  ELSE IF size >= MAX_FILE_BYTES THEN 400
  ELSE 200

\* intake.py:52-61, 77: the status code of the answer.
intake_status(content_type, size) ==
  IF content_type \notin ALLOWED_TYPES THEN 400
  ELSE IF size > MAX_FILE_BYTES THEN 400
  ELSE 200

\* intake.py:46-82: the whole handler.  A refused request raises
\* HTTPException(400) before anything is written; an accepted one inserts a
\* row under a new uuid4 and answers with it.
post_intake(content_type, size, max) ==
  LET status == intake_status(content_type, size) IN
  /\ status = 200 => Len(documents) < max
  /\ \E uploaded \in 0..now :
       documents' = IF status = 200 THEN insert_document(documents, uploaded)
                    ELSE documents
  /\ reply' = LastTwo(Append(reply,
                [ content_type |-> content_type, size |-> size,
                  status |-> status,
                  document_id |-> IF status = 200 THEN Len(documents) + 1
                                  ELSE NoDoc ]))
  /\ UNCHANGED << pipeline_results, safety_flags, agent_heartbeat, agent_log,
                  alerts, now, th, crashes, pn_calls, stop_event, entered >>

\* SpecIntake: uploads of every content type and size, and the clock.
NextIntake ==
  \/ \E content_type \in ContentTypeInputs, size \in SizeInputs :
       post_intake(content_type, size, MaxDocs)
  \/ AdvanceClock

SpecIntake == Init /\ [][NextIntake]_vars

(* ------------------------------- C21 ---------------------------------- *)

\* C21: an upload whose content type is not allowed or whose size exceeds
\* 20 MB is answered with a client error and leaves the documents as they
\* were; any other upload, one of exactly 20 MB included, is answered with
\* success and adds exactly one row, under an id no row had, with status
\* 'pending'.
C21_SubmitValidates ==
  [][Answered =>
       LET r == reply'[Len(reply')] IN
       IF r.content_type \in ALLOWED_TYPES /\ r.size <= 20 * 1024 * 1024
       THEN /\ r.status = 200
            /\ Len(documents') = Len(documents) + 1
            /\ SubSeq(documents', 1, Len(documents)) = documents
            /\ r.document_id = Len(documents')
            /\ r.document_id \notin DocIds
            /\ documents'[r.document_id].status = "pending"
       ELSE /\ r.status \in 400..499
            /\ r.document_id = NoDoc
            /\ documents' = documents]_vars

\* An upload of exactly 20 MB was queued and one of one byte more refused.
C21_Witness ==
  /\ Len(reply) = 2
  /\ reply[1].size = MAX_FILE_BYTES
  /\ reply[1].status = 200
  /\ documents[reply[1].document_id].status = "pending"
  /\ reply[2].size = MAX_FILE_BYTES + 1
  /\ reply[2].content_type = "application/pdf"
  /\ reply[2].status = 400

(* ------------------------------- C22 ---------------------------------- *)

\* C22: a failed document can be retried from outside: once POST
\* /agent/process-now, the one request that makes the agent look at the queue,
\* is made for a failed document, the document goes back to 'pending' and is
\* reprocessed, so it does not stay 'failed'.
C22_FailedIsRetried ==
  \A d \in 1..MaxDocsDeep :
    (d \in DocIds /\ documents[d].status = "failed" /\ th["pn"].pc = "tick_hb")
      ~> (d \in DocIds /\ documents[d].status # "failed")

(* ------------------ intake.py: GET /intake/{doc_id}/results ----------- *)

\* stages.get(stage, {}): no row of that stage.
NoRow == 0

\* Variant: the rows read ORDER BY id DESC, so the oldest row of a stage is
\* the last one stored in the dict.
RECURSIVE stages_dict_desc(_, _, _, _)
stages_dict_desc(results, doc_id, i, stages) ==
  IF i > Len(results) THEN stages
  ELSE LET id == Len(results) + 1 - i IN
       stages_dict_desc(results, doc_id, i + 1,
         IF results[id].document_id = doc_id
         THEN [stages EXCEPT ![results[id].stage] = id]
         ELSE stages)

\* intake.py:192-209: the rows of the document in id order, each stored in
\* the dict under its stage, a later row replacing an earlier one.  An output
\* is named by the id of the row that holds it.
RECURSIVE stages_dict(_, _, _, _)
stages_dict(results, doc_id, i, stages) ==
  IF i > Len(results) THEN stages
  ELSE stages_dict(results, doc_id, i + 1,
         IF results[i].document_id = doc_id
         THEN [stages EXCEPT ![results[i].stage] = i]
         ELSE stages)

\* intake.py:182-245: 404 for an unknown document, else the four stages'
\* outputs.
document_results(doc_id) ==
  IF doc_id \notin DocIds
  THEN [ document_id |-> doc_id, status |-> 404 ]
  ELSE [ document_id |-> doc_id, status |-> 200,
         stages |-> stages_dict(pipeline_results, doc_id, 1,
                      [ stage \in Range(Stages) |-> NoRow ]) ]

get_document_results(doc_id) ==
  /\ reply' = << document_results(doc_id) >>
  /\ UNCHANGED << documents, pipeline_results, safety_flags, agent_heartbeat,
                  agent_log, alerts, now, th, crashes, pn_calls, stop_event,
                  entered >>

\* Document ids a client may ask for: every document and one past them.
DocIdInputs == 1..(Len(documents) + 1)

\* SpecResults: the agent thread, a standardization call that may raise, a
\* kill and restart, and a reader of the results.
NextResults ==
  \/ LoopStart
  \/ TickPlain("loop", StandardizationRaises)
  \/ TickFailed("loop")
  \/ intake_document(MaxDocsDeep)
  \/ CrashRestart
  \/ \E doc_id \in DocIdInputs : get_document_results(doc_id)

SpecResults == Init /\ [][NextResults]_vars

(* ------------------------------- C23 ---------------------------------- *)

\* C23: documentResults returns, for each stage, the output of the row with
\* the highest id among the document's rows of that stage, and nothing for a
\* stage without rows.
C23_LatestRowPerStage ==
  [][Answered /\ reply'[1].status = 200 =>
       \A stage \in Range(Stages) :
         LET rows == StageRows(reply'[1].document_id, stage) IN
         IF rows = {} THEN reply'[1].stages[stage] = NoRow
         ELSE /\ reply'[1].stages[stage] \in rows
              /\ \A i \in rows : i <= reply'[1].stages[stage]]_vars

\* The reader answered for a document with two extraction rows, from two
\* attempts, with the second one.
C23_Witness ==
  /\ reply # <<>>
  /\ reply[1].status = 200
  /\ Cardinality(StageRows(reply[1].document_id, "extraction")) = 2
  /\ reply[1].stages["extraction"] > 1
  /\ reply[1].stages["standardization"] # NoRow

(* ------------------------------ counters ------------------------------ *)

\* Validation reports of the counter runs: every check passes, or Dose
\* Consistency fails.
CounterReports == AllPass \cup DoseDropReports

\* agent.py:174-212: the flag of a failed check and the escalation.
TickCheckFlags(t) ==
  \/ CheckFlagInsert(t) \/ CheckFlagLog(t)
  \/ EscalateIncrement(t) \/ EscalateHeartbeat(t) \/ EscalateLog(t)

LoopCounters ==
  \/ LoopStart
  \/ TickQueue("loop")
  \/ TickStages("loop", {}, NoFlags, CounterReports)
  \/ TickCheckFlags("loop")
  \/ TickComplete("loop")

PnCounters ==
  \/ TickQueue("pn")
  \/ TickStages("pn", {}, NoFlags, CounterReports)
  \/ TickCheckFlags("pn")
  \/ TickComplete("pn")

\* SpecCounters: the agent thread and a process-now tick over one document
\* that may fail a check, with a kill and restart.
NextCounters ==
  \/ LoopCounters
  \/ process_now
  \/ PnCounters
  \/ intake_document(MaxDocsDeep)
  \/ CrashRestart

SpecCounters == Init /\ [][NextCounters]_vars

(* ------------------------------- C24 ---------------------------------- *)

\* C24: no step, a restart with its init_db included, decreases a document's
\* critical_flags_count or the heartbeat's documents_processed_total or
\* flags_raised_total.
C24_CountersMonotone ==
  [][ /\ \A d \in DocIds :
           documents'[d].critical_flags_count
             >= documents[d].critical_flags_count
      /\ agent_heartbeat'.documents_processed_total
           >= agent_heartbeat.documents_processed_total
      /\ agent_heartbeat'.flags_raised_total
           >= agent_heartbeat.flags_raised_total ]_vars

\* All three counters have been incremented, the process was killed and the
\* restarted agent thread is in a tick.
C24_Witness ==
  /\ crashes > 0
  /\ th["loop"].pc = "dequeue"
  /\ agent_heartbeat.documents_processed_total > 0
  /\ agent_heartbeat.flags_raised_total > 0
  /\ \E d \in DocIds : documents[d].critical_flags_count > 0

(* ------------------------------- C25 ---------------------------------- *)

\* C25: every change of a document's status is pending -> processing,
\* processing -> complete, processing -> failed or processing -> pending; in
\* particular a complete or failed document never becomes 'processing' and a
\* complete one never 'failed', however the ticks interleave.
C25_StatusTransitions ==
  [][ \A d \in DocIds :
        documents'[d].status # documents[d].status
          => << documents[d].status, documents'[d].status >>
               \in { << "pending", "processing" >>,
                     << "processing", "complete" >>,
                     << "processing", "failed" >>,
                     << "processing", "pending" >> } ]_vars

(* ------------------------------- C26 ---------------------------------- *)

\* The rows of document d, in id order.
RowsOf(d) == SelectSeq(pipeline_results, LAMBDA r : r.document_id = d)

\* The place of a stage in the pipeline's order.
StageIndex(stage) == CHOOSE k \in 1..Len(Stages) : Stages[k] = stage

\* The position from which thread t calls stage k.
StagePc(k) == << "s1_start", "s2_start", "s3_start", "s4_start" >>[k]

\* Thread t calls stage k in this step.
Invokes(t, k) ==
  /\ th[t].pc = StagePc(k)
  /\ th'[t].pc # StagePc(k)
  /\ crashes' = crashes

\* C26: the stages run in the order extraction, standardization, fhir,
\* validation and each one's row is stored before the next stage is called:
\* in a document's rows every row of a later stage directly follows the row
\* of the stage before it, written by the same attempt; when a stage is
\* called, the row of the stage before it is the document's newest row; and
\* a kill changes neither the rows nor the document, which is still
\* 'processing' when it was.
C26_StagesInOrderAndPersisted ==
  /\ [](\A d \in DocIds :
          \A i \in 1..Len(RowsOf(d)) :
            StageIndex(RowsOf(d)[i].stage) > 1
              => /\ i > 1
                 /\ StageIndex(RowsOf(d)[i - 1].stage)
                      = StageIndex(RowsOf(d)[i].stage) - 1)
  /\ [][\A t \in Threads : \A k \in 2..Len(Stages) :
          Invokes(t, k)
            => /\ RowsOf(th[t].doc) # <<>>
               /\ RowsOf(th[t].doc)[Len(RowsOf(th[t].doc))].stage
                    = Stages[k - 1]]_vars
  /\ [][crashes' # crashes
          => /\ pipeline_results' = pipeline_results
             /\ documents' = documents]_vars

\* The process was killed between the standardization and the FHIR stage:
\* the document is 'processing' and has its first two rows.
C26_Witness ==
  /\ crashes = 1
  /\ th["loop"].pc = "recover"
  /\ Len(documents) = 1
  /\ documents[1].status = "processing"
  /\ Len(RowsOf(1)) = 2
  /\ RowsOf(1)[1].stage = "extraction"
  /\ RowsOf(1)[2].stage = "standardization"

(* ------------------------------- C27 ---------------------------------- *)

\* C27: each stage is written once per attempt: a document never has more
\* rows of a stage than the times it became 'processing', and one that became
\* 'processing' once and is complete has exactly one row of every stage.
C27_OneRowPerStagePerAttempt ==
  \A d \in DocIds : \A stage \in Range(Stages) :
    /\ Cardinality(StageRows(d, stage)) <= Entered(d)
    /\ (documents[d].status = "complete" /\ Entered(d) = 1)
         => Cardinality(StageRows(d, stage)) = 1

(* ------------------------------- C28 ---------------------------------- *)

\* The HIGH and CRITICAL flag rows of document d.
CriticalRowsOf(d) ==
  { i \in FlagIdsOf(d) : safety_flags[i].severity \in { "HIGH", "CRITICAL" } }

\* C28: a tick whose pipeline completes escalates if and only if it raised a
\* HIGH or CRITICAL flag: then it adds the number of those flags to the
\* document's critical_flags_count and to flags_raised_total and logs
\* 'escalation'; a tick that raised MEDIUM or LOW flags only goes on to
\* complete the document without touching either counter.
C28_EscalatesHighFlagsOnly ==
  [][\A t \in Threads :
       /\ Steps(t, "s4_done", "esc_incr")
            => CriticalRowsOf(th[t].doc) # {}
       /\ Steps(t, "s4_done", "set_complete")
            => CriticalRowsOf(th[t].doc) = {}
       /\ Steps(t, "esc_incr", "esc_hb")
            => documents'[th[t].doc].critical_flags_count
                 = documents[th[t].doc].critical_flags_count
                     + Cardinality(CriticalRowsOf(th[t].doc))
       /\ Steps(t, "esc_hb", "esc_log")
            => agent_heartbeat'.flags_raised_total
                 = agent_heartbeat.flags_raised_total
                     + Cardinality(CriticalRowsOf(th[t].doc))]_vars

(* ------------------------------ heartbeat ----------------------------- *)

\* SpecHeartbeat: the agent thread and a process-now tick, with and without
\* a pending document, the clock, and a kill and restart.
NextHeartbeat ==
  \/ LoopStart
  \/ TickPlain("loop", {})
  \/ process_now
  \/ TickPlain("pn", {})
  \/ intake_document(MaxDocsDeep)
  \/ AdvanceClock
  \/ CrashRestart

SpecHeartbeat == Init /\ [][NextHeartbeat]_vars

(* ------------------------------- C29 ---------------------------------- *)

\* Positions of a thread that is not in a tick.
OutsideTickPcs == { "recover", "recovery_log", "startup_hb", "startup_log",
                    "wait", "off" }

\* C29: every tick, the timer's or process-now's, starts by writing the
\* heartbeat's last_seen: a thread enters a tick at the heartbeat update, the
\* step that takes it from there to the queue writes the current time to
\* last_seen and touches no document, whether or not one is pending, and the
\* queue is reached in no other way; started_at is changed by no step, a
\* restart's init_db included.
C29_HeartbeatFirst ==
  /\ [][\A t \in Threads :
          /\ (th[t].pc \in OutsideTickPcs /\ th'[t].pc \notin OutsideTickPcs)
               => th'[t].pc = "tick_hb"
          /\ (th[t].pc = "tick_hb" /\ th'[t].pc # "tick_hb"
                /\ crashes' = crashes)
               => /\ th'[t].pc = "dequeue"
                  /\ agent_heartbeat'.last_seen = now
                  /\ documents' = documents
          /\ (th[t].pc # "dequeue" /\ th'[t].pc = "dequeue")
               => th[t].pc = "tick_hb"]_vars
  /\ [][agent_heartbeat'.started_at = agent_heartbeat.started_at]_vars

\* After a restart and with the clock advanced, a process-now tick that finds
\* the queue empty has written last_seen, and started_at is what it was.
C29_Witness ==
  /\ crashes = 1
  /\ now > 0
  /\ th["pn"].pc = "dequeue"
  /\ PendingIds(documents) = {}
  /\ agent_heartbeat.last_seen = now
  /\ agent_heartbeat.started_at = 0

(* ------------------------------- C30 ---------------------------------- *)

\* The heartbeat's counters.
HeartbeatCounters ==
  << agent_heartbeat.documents_processed_total,
     agent_heartbeat.flags_raised_total >>

\* C30: a tick that finds no pending document changes the heartbeat's
\* last_seen and appends one 'idle' entry to the pruned log, and nothing
\* else: its heartbeat step changes no table but the heartbeat and no counter
\* of it, its look at the queue, which finds no pending row, changes nothing,
\* and its last step writes the 'idle' entry alone and ends the tick.
C30_IdleTickFrame ==
  [][\A t \in Threads :
       /\ Steps(t, "tick_hb", "dequeue")
            => /\ UNCHANGED << documents, pipeline_results, safety_flags,
                               agent_log, alerts, HeartbeatCounters >>
               /\ agent_heartbeat'.started_at = agent_heartbeat.started_at
       /\ Steps(t, "dequeue", "idle_log")
            => /\ PendingIds(documents) = {}
               /\ UNCHANGED << documents, pipeline_results, safety_flags,
                               agent_heartbeat, agent_log, alerts >>
       /\ (th[t].pc = "dequeue" /\ th'[t].pc # "dequeue"
             /\ crashes' = crashes /\ PendingIds(documents) = {})
            => th'[t].pc = "idle_log"
       /\ (th[t].pc = "idle_log" /\ th'[t].pc # "idle_log"
             /\ crashes' = crashes)
            => /\ th'[t].pc \in { "wait", "off" }
               /\ UNCHANGED << documents, pipeline_results, safety_flags,
                               agent_heartbeat, alerts >>
               /\ agent_log' # <<>>
               /\ agent_log'[Len(agent_log')].event = "idle"
               /\ agent_log' =
                    Newest(Append(agent_log, agent_log'[Len(agent_log')]),
                           LogWindow)]_vars

\* An idle tick of the agent thread has ended with a completed document in
\* the store: the newest log entry is 'idle' and last_seen is the time.
C30_Witness ==
  /\ th["loop"].pc = "wait"
  /\ agent_log # <<>>
  /\ agent_log[Len(agent_log)].event = "idle"
  /\ Len(documents) = 1
  /\ documents[1].status = "complete"
  /\ now > 0
  /\ agent_heartbeat.last_seen = now
  /\ agent_heartbeat.documents_processed_total = 1

(* ------------------------------- C31 ---------------------------------- *)

\* C31: a tick sets its document 'processing' before it logs 'doc_start':
\* whenever the log holds a 'doc_start' entry for a document, the document is
\* no longer 'pending'.
C31_ProcessingBeforeDocStart ==
  \A i \in 1..Len(agent_log) :
    agent_log[i].event = "doc_start"
      => documents[agent_log[i].document_id].status # "pending"

(* ----------------------------- read endpoints ------------------------- *)

\* database.py:309-335: six COUNT(*) queries.
get_stats(docs, flags) ==
  [ total |-> Len(docs),
    pending |-> Cardinality({ d \in 1..Len(docs) : docs[d].status = "pending" }),
    processing |-> Cardinality({ d \in 1..Len(docs) :
                                   docs[d].status = "processing" }),
    complete |-> Cardinality({ d \in 1..Len(docs) :
                                 docs[d].status = "complete" }),
    failed |-> Cardinality({ d \in 1..Len(docs) : docs[d].status = "failed" }),
    unresolved_flags |-> Cardinality({ f \in 1..Len(flags) :
                                         ~ flags[f].resolved }) ]

\* database.py:236-246: the ids of the rows with resolved = 0.
get_unresolved_flags(flags) == { f \in 1..Len(flags) : ~ flags[f].resolved }

\* database.py:249-259: the ids of the rows, fewer than the LIMIT of 50 here.
get_all_flags(flags) == 1..Len(flags)

\* A GET handler: it answers from what it read and writes nothing.
Reads(op, answer) ==
  /\ reply' = << [ op |-> op, status |-> 200, answer |-> answer ] >>
  /\ UNCHANGED << documents, pipeline_results, safety_flags, agent_heartbeat,
                  agent_log, alerts, now, th, crashes, pn_calls, stop_event,
                  entered >>

\* intake.py:146-154; of the recent documents, fewer than the LIMIT of 20
\* here, the answer keeps the number.
queue_status ==
  Reads("queue_status", [ stats |-> get_stats(documents, safety_flags),
                          recent_documents |-> Len(documents) ])

\* alerts.py:41-49
get_unresolved_alerts ==
  Reads("get_unresolved_alerts", get_unresolved_flags(safety_flags))

\* alerts.py:52-60
get_all_alerts == Reads("get_all_alerts", get_all_flags(safety_flags))

\* main.py:112-146
health_endpoint ==
  Reads("health", [ status |-> health(agent_heartbeat, now),
                    heartbeat |-> agent_heartbeat.last_seen,
                    queue |-> get_stats(documents, safety_flags) ])

\* main.py:163-176; of the entries, the whole log here, the answer keeps the
\* number.
agent_activity ==
  Reads("agent_activity",
        [ entries |-> Len(agent_log),
          has_active |-> get_stats(documents, safety_flags).processing > 0 ])

ReadEndpoints ==
  \/ queue_status \/ get_unresolved_alerts \/ get_all_alerts
  \/ health_endpoint \/ agent_activity
  \/ \E doc_id \in DocIdInputs :
       Reads("get_document_results", document_results(doc_id))

\* SpecReads: the agent thread on a document that raises one standardization
\* flag and fails one check, a kill and restart, and clients that read and
\* that resolve flags.
NextReads ==
  \/ LoopStart
  \/ TickQueue("loop")
  \/ TickStages("loop", {}, DoseDropOutputs, DoseDropReports)
  \/ TickFlags("loop")
  \/ TickComplete("loop")
  \/ intake_document(MaxDocsDeep)
  \/ CrashRestart
  \/ \E flag_id \in FlagIdInputs : resolve_alert(flag_id)
  \/ ReadEndpoints

SpecReads == Init /\ [][NextReads]_vars

(* ------------------------------- C32 ---------------------------------- *)

\* The answer just given is that of a resolve request.
ResolveAnswered == Answered /\ "flag_id" \in DOMAIN LastReply'

\* The answer just given is that of a GET handler.
ReadAnswered == Answered /\ "flag_id" \notin DOMAIN LastReply'

\* C32: a read, a resolve and a dispatch leave every document as it is; a
\* resolve changes nothing but the 'resolved' field of the flag it names; and
\* no step removes a document, a flag or a stage result.
C32_ReadsResolveDispatchFrame ==
  [][ /\ (ReadAnswered \/ ResolveAnswered \/ alerts' # alerts)
           => documents' = documents
      /\ ResolveAnswered
           => /\ Len(safety_flags') = Len(safety_flags)
              /\ \A f \in 1..Len(safety_flags) :
                   /\ f # LastReply'.flag_id
                        => safety_flags'[f] = safety_flags[f]
                   /\ [safety_flags'[f] EXCEPT !.resolved = FALSE]
                        = [safety_flags[f] EXCEPT !.resolved = FALSE]
              /\ UNCHANGED << pipeline_results, agent_heartbeat, agent_log >>
      /\ Len(documents') >= Len(documents)
      /\ Len(safety_flags') >= Len(safety_flags)
      /\ Len(pipeline_results') >= Len(pipeline_results)
      /\ \A d \in 1..Len(documents) :
           documents'[d].uploaded_at = documents[d].uploaded_at
      /\ \A f \in 1..Len(safety_flags) :
           [safety_flags'[f] EXCEPT !.resolved = FALSE]
             = [safety_flags[f] EXCEPT !.resolved = FALSE]
      /\ SubSeq(pipeline_results', 1, Len(pipeline_results))
           = pipeline_results ]_vars

\* A read has just been answered while the document is being processed, one
\* of its two flags is resolved and the other is not, and an alert was sent.
C32_Witness ==
  /\ Len(reply) = 1
  /\ "op" \in DOMAIN LastReply
  /\ LastReply.op = "queue_status"
  /\ Len(documents) = 1
  /\ documents[1].status = "processing"
  /\ Len(safety_flags) = 2
  /\ safety_flags[1].resolved
  /\ ~ safety_flags[2].resolved
  /\ Len(alerts) > 0

(* ----------------------- store errors in process-now ------------------ *)

\* SpecPnErrors: the agent thread and a process-now tick over one store whose
\* calls may raise in the process-now tick.
NextPnErrors ==
  \/ LoopBoot
  \/ TickPlain("loop", {})
  \/ process_now
  \/ TickPlain("pn", {})
  \/ TickFailed("pn")
  \/ StoreRaises("pn")
  \/ intake_document(MaxDocsDeep)

SpecPnErrors == Init /\ [][NextPnErrors]_vars

(* ------------------------------- C33 ---------------------------------- *)

\* C33: an exception that leaves a tick started by process-now is caught: no
\* process-now thread ends with its exception uncaught.
C33_PnTickErrorCaught ==
  ~ (th["pn"].pc = "off" /\ th["pn"].exc # NULL)

(* ------------------------------- C34 ---------------------------------- *)

\* C34: a document whose error_message is set has status 'failed'.
C34_ErrorMessageOnlyOnFailed ==
  \A d \in 1..MaxDocs :
    (d \in DocIds /\ documents[d].error_message # NULL)
      => documents[d].status = "failed"

(* ------------------------------- C35 ---------------------------------- *)

\* The agent thread keeps ticking and a process-now thread, once started,
\* runs its tick to the end; every stage call returns or raises and no store
\* call fails.
LiveRace == Spec /\ WF_vars(LoopRace) /\ WF_vars(PnRace)

\* C35: every pending document reaches 'complete' or 'failed'; and a tick
\* holds one document from its dequeue to its end, and no step changes the
\* status of two documents.
C35_PendingIsProcessed ==
  /\ \A d \in 1..MaxDocs :
       (d \in DocIds /\ documents[d].status = "pending")
         ~> (d \in DocIds /\ documents[d].status \in { "complete", "failed" })
  /\ [][ /\ \A t \in Threads :
             th[t].doc # NoDoc => th'[t].doc \in { th[t].doc, NoDoc }
        /\ Cardinality({ d \in DocIds :
                           documents'[d].status # documents[d].status }) <= 1
      ]_vars

\* Two documents were submitted; one is complete and the other failed.
C35_Witness ==
  /\ Len(documents) = 2
  /\ documents[1].status = "failed"
  /\ documents[2].status = "complete"
  /\ \A t \in Threads : th[t].doc = NoDoc

(* ------------------------------- C36 ---------------------------------- *)

\* C36: a tick in which a store call raised while it was processing its
\* document ends with that document 'failed' and the error in its
\* error_message.
C36_StoreErrorFailsDocument ==
  [][ \A t \in Threads :
        (th[t].exc = "store" /\ th[t].doc # NoDoc /\ th'[t].doc = NoDoc)
          => /\ documents'[th[t].doc].status = "failed"
             /\ documents'[th[t].doc].error_message = "store" ]_vars

(* ------------------------------- C37 ---------------------------------- *)

\* C37: whenever no tick is in flight, documents_processed_total is the
\* number of documents whose status is 'complete'.
C37_ProcessedTotalCountsComplete ==
  (\A t \in Threads : th[t].pc \in OutsideTickPcs)
    => agent_heartbeat.documents_processed_total
         = Cardinality({ d \in DocIds : documents[d].status = "complete" })

(* ------------------------------- C38 ---------------------------------- *)

\* C38: a tick never writes 'failed' for a document it has marked
\* 'complete': the document of a tick's 'failed' write is not 'complete'.
C38_CompleteNeverTurnsFailed ==
  [][ \A t \in Threads :
        Steps(t, "fail_set", "fail_log")
          => documents[th[t].doc].status # "complete" ]_vars

(* ------------------------------- C39 ---------------------------------- *)

\* SUM(critical_flags_count) over the documents from row i on.
RECURSIVE CriticalFlagsSum(_, _)
CriticalFlagsSum(docs, i) ==
  IF i > Len(docs) THEN 0
  ELSE docs[i].critical_flags_count + CriticalFlagsSum(docs, i + 1)

\* C39: whenever no tick is in flight, flags_raised_total is the sum of the
\* documents' critical_flags_count; a document that completed in its first
\* attempt has as many flag rows as its critical_flags_count says; and a
\* document that failed in its first attempt has a critical_flags_count of 0.
C39_FlagCountersAgree ==
  /\ (\A t \in Threads : th[t].pc \in OutsideTickPcs)
       => agent_heartbeat.flags_raised_total = CriticalFlagsSum(documents, 1)
  /\ \A d \in 1..MaxDocsDeep :
       (d \in DocIds /\ Entered(d) = 1)
         => /\ documents[d].status = "complete"
                 => documents[d].critical_flags_count
                      = Cardinality(FlagIdsOf(d))
            /\ documents[d].status = "failed"
                 => documents[d].critical_flags_count = 0

(* ------------------- severities of standardization flags -------------- *)

\* Entries of every severity a standardization output may carry, one of them
\* without the key.
SeverityFlags ==
  { [severity |-> "HIGH",     category |-> "DOSE_VARIANCE"],
    [severity |-> "LOW",      category |-> "MISSING_DATA"],
    [severity |-> "MEDIUM",   category |-> "AMBIGUOUS_NAME"],
    [severity |-> "CRITICAL", category |-> "DRUG_INTERACTION"],
    [category |-> "OTHER"] }

SeverityOutputs == SeqsUpTo(SeverityFlags, MaxSeverityFlags)

\* agent.py:122-145, 205-212: the HIGH flags of the output and the escalation.
TickStdFlags(t) ==
  \/ StdFlagInsert(t) \/ StdFlagLog(t)
  \/ EscalateIncrement(t) \/ EscalateHeartbeat(t) \/ EscalateLog(t)

\* SpecSeverity: one document through a tick in which no stage raises and
\* every check passes, with every standardization output of the bounds.
NextSeverity ==
  \/ LoopBoot
  \/ TickQueue("loop")
  \/ TickStages("loop", {}, SeverityOutputs, AllPass)
  \/ TickStdFlags("loop")
  \/ TickComplete("loop")
  \/ intake_document(MaxDocsDeep)

SpecSeverity == Init /\ [][NextSeverity]_vars

(* ------------------------------- C40 ---------------------------------- *)

\* The loop went from the list 'before' to the list 'after' by passing over
\* flags that are not HIGH, up to the next HIGH one or the end.
PassedOver(before, after) ==
  \E k \in 0..Len(before) :
    /\ after = SubSeq(before, k + 1, Len(before))
    /\ \A i \in 1..k : flag_severity(before[i]) # "HIGH"
    /\ after # <<>> => flag_severity(Head(after)) = "HIGH"

\* C40: the loop over the standardization flags passes over every flag whose
\* severity is not HIGH, the missing one included, with no SafetyFlag row, no
\* 'flag' entry, no alert and no count; the row, the count, the entry and the
\* alert are those of a HIGH flag; and the escalation adds the count of the
\* rows.
C40_NonHighStdFlagsIgnored ==
  [][ \A t \in Threads :
        /\ (th[t].pc = "s2_done" /\ th'[t].pc # "s2_done")
             => /\ PassedOver(th[t].raw_flags, th'[t].raw_flags)
                /\ th'[t].critical_count = 0
                /\ UNCHANGED << safety_flags, alerts, documents,
                                agent_heartbeat >>
                /\ \A i \in 1..Len(agent_log') :
                     agent_log'[i].event # "flag"
        /\ (th[t].pc = "std_flag_insert" /\ th'[t].pc # "std_flag_insert")
             => /\ flag_severity(Head(th[t].raw_flags)) = "HIGH"
                /\ Len(safety_flags') = Len(safety_flags) + 1
                /\ safety_flags'[Len(safety_flags')].severity = "HIGH"
                /\ th'[t].critical_count = th[t].critical_count + 1
                /\ th'[t].raw_flags = th[t].raw_flags
        /\ (th[t].pc = "std_flag_log" /\ th'[t].pc # "std_flag_log")
             => /\ PassedOver(Tail(th[t].raw_flags), th'[t].raw_flags)
                /\ Len(alerts') = Len(alerts) + 1
                /\ alerts'[Len(alerts')].severity = "HIGH"
                /\ alerts'[Len(alerts')].flag_id = Len(safety_flags)
                /\ th'[t].critical_count = th[t].critical_count
                /\ UNCHANGED << safety_flags, documents, agent_heartbeat >>
        /\ (th[t].pc = "esc_incr" /\ th'[t].pc # "esc_incr")
             => /\ th[t].critical_count = Cardinality(FlagIdsOf(th[t].doc))
                /\ documents'[th[t].doc].critical_flags_count
                     = Cardinality(FlagIdsOf(th[t].doc))
        /\ (th[t].pc = "esc_hb" /\ th'[t].pc # "esc_hb")
             => agent_heartbeat'.flags_raised_total
                  = agent_heartbeat.flags_raised_total
                      + Cardinality(FlagIdsOf(th[t].doc)) ]_vars

\* The HIGH flag of the output has its row, and the flag after it, which is
\* CRITICAL, is the next the loop comes to.
C40_Witness ==
  /\ th["loop"].pc = "std_flag_log"
  /\ Len(th["loop"].raw_flags) = 2
  /\ flag_severity(th["loop"].raw_flags[2]) = "CRITICAL"
  /\ Len(safety_flags) = 1
  /\ safety_flags[1].severity = "HIGH"

=============================================================================
